---- MODULE Spec2Model ----
(***************************************************************************)
(* Model of the dpservice-go client (src/client/client.go) and of the      *)
(* wire-to-domain conversions it uses (src/api/conversion.go).             *)
(*                                                                         *)
(* The client is synchronous and keeps no state of its own: every          *)
(* operation builds a request, issues one (GetNATInfo: up to two) calls on *)
(* the embedded DPDKonmetalClient and classifies the outcome.  One action  *)
(* models one whole invocation; the backend's answer (a transport error or *)
(* a response message) is the nondeterministic input of the action.  The   *)
(* variables record the invocation in progress: its arguments (args as     *)
(* passed, after as the operation leaves them), the calls issued, the      *)
(* answers consumed and what the operation handed back to the caller.      *)
(* Done is the caller dropping the result before the next call.            *)
(***************************************************************************)
EXTENDS Integers, Sequences, FiniteSets, TLC

VARIABLES op, args, after, calls, resps, ret, err, panicked, round

vars == <<op, args, after, calls, resps, ret, err, panicked, round>>

\* ------------------------------------------------------------------ bounds
\* Longest entry list a list-class response carries.
MaxEntries == 2
\* Longest entry list one GetNATInfo response carries.
MaxNatEntries == 2

\* ------------------------------------------------------- program constants
ALREADY_ALLOCATED == 109
GET_VM_NOT_FND == 171
LIST == 200

Kinds ==
  [ InterfaceKind |-> "Interface",
    InterfaceListKind |-> "InterfaceList",
    LoadBalancerKind |-> "LoadBalancer",
    LoadBalancerTargetKind |-> "LoadBalancerTarget",
    LoadBalancerTargetListKind |-> "LoadBalancerTargetList",
    LoadBalancerPrefixKind |-> "LoadBalancerPrefix",
    PrefixKind |-> "Prefix",
    PrefixListKind |-> "PrefixList",
    VirtualIPKind |-> "VirtualIP",
    RouteKind |-> "Route",
    RouteListKind |-> "RouteList",
    NatKind |-> "Nat",
    NatListKind |-> "NatList",
    NeighborNatKind |-> "NeighborNat",
    FirewallRuleKind |-> "FirewallRule",
    FirewallRuleListKind |-> "FirewallRuleList",
    VniKind |-> "Vni" ]

\* ------------------------------------------------------------ error values
NoErr == [t |-> "nil"]
\* A transport-level failure of one RPC; id tells two such errors apart.
TransportErr(id) == [t |-> "transport", id |-> id]
ErrServerError == [t |-> "ErrServerError"]
\* fmt.Errorf("<msg>: %w", err) around a netip parse error.
ConversionErr(msg) == [t |-> "conversion", msg |-> msg]
\* fmt.Errorf of an unrecognized enum token.
EnumErr(msg) == [t |-> "enum", msg |-> msg]

\* ------------------------------------------------------- netip.Addr values
ValidV4 == {"10.20.30.40", "10.20.30.41"}
ValidV6 == {"ff80::1", "ff80::2"}
\* The zero netip.Addr: IsValid() is false, String() is "invalid IP".
ZeroAddr == [is |-> 0, s |-> "invalid IP"]
Addr4(s) == [is |-> 4, s |-> s]
Addr6(s) == [is |-> 6, s |-> s]
AddrString(a) == a.s
IsValid(a) == a.is # 0

\* netip.ParseAddr on the strings of the model: the two literals of each
\* family parse, every other string (the empty one included) is rejected.
ParseAddr(s) ==
  IF s \in ValidV4 THEN [err |-> FALSE, addr |-> Addr4(s)]
  ELSE IF s \in ValidV6 THEN [err |-> FALSE, addr |-> Addr6(s)]
  ELSE [err |-> TRUE, addr |-> ZeroAddr]

\* Pointers: nil, or a reference to a value.
NilPtr == [ptr |-> FALSE]
Ref(v) == [ptr |-> TRUE, v |-> v]

\* netip.PrefixFrom / Prefix.Bits: an out-of-range length gives bits = -1.
BitLen(a) == IF a.is = 4 THEN 32 ELSE IF a.is = 6 THEN 128 ELSE 0
PrefixFrom(a, bits) ==
  [addr |-> a, bits |-> IF bits < 0 \/ bits > BitLen(a) THEN -1 ELSE bits]
ZeroPrefix == [addr |-> ZeroAddr, bits |-> 0]

\* ------------------------------------------------------------ domain model
ZeroStatus == [Error |-> 0, Message |-> ""]
Obj(kind, meta, spec, status) ==
  [nil |-> FALSE, Kind |-> kind, Meta |-> meta, Spec |-> spec, Status |-> status]
ListObj(kind, meta, status, items) ==
  [nil |-> FALSE, Kind |-> kind, Meta |-> meta, Status |-> status, Items |-> items]
\* A nil pointer returned in place of an object.
NilObj == [nil |-> TRUE]
\* What the caller holds after a panic: nothing was returned.
NoReturn == [none |-> TRUE]

\* --------------------------------------------------------- handler results
Call(method, req) == [method |-> method, req |-> req]
Out(c, r, e) == [calls |-> c, ret |-> r, err |-> e, panicked |-> FALSE]
\* A nil-pointer dereference: the goroutine panics, nothing is returned.
Panic(c) == [calls |-> c, ret |-> NoReturn, err |-> NoReturn, panicked |-> TRUE]

\* --------------------------------------------------------- backend answers
\* One answer of the DPDKonmetalClient: (nil, err) or (res, nil).
NilRes == [nil |-> TRUE]
Failed(e) == [terr |-> e, res |-> NilRes]
Answered(res) == [terr |-> NoErr, res |-> res]
Answers(Responses) ==
  {Failed(e) : e \in {TransportErr("unavailable"), TransportErr("deadline")}}
    \cup {Answered(res) : res \in Responses}

\* The embedded status substructure of a response.
WireStatuses ==
  { [Error |-> 0, Message |-> ""], [Error |-> 0, Message |-> "ok"],
    [Error |-> ALREADY_ALLOCATED, Message |-> "exists"],
    [Error |-> GET_VM_NOT_FND, Message |-> ""] }

\* Inputs of the callers.
IDs == {"vm4", "lb2"}
VNIs == {100, 200}
\* Address strings a response may carry: empty, valid, or not an address.
WireV4 == {"", "10.20.30.40", "bad"}
WireV6 == {"", "ff80::1", "bad"}

\* src/api/conversion.go
ProtoStatusToStatus(dpdkStatus) ==
  [Error |-> dpdkStatus.Error, Message |-> dpdkStatus.Message]

NetIPAddrToProtoIPVersion(addr) ==
  IF addr.is = 4 THEN 0 ELSE IF addr.is = 6 THEN 1 ELSE 0

LbipToProtoLbip(lbip) ==
  [IpVersion |-> NetIPAddrToProtoIPVersion(lbip), Address |-> AddrString(lbip)]

ProtoLbipToLbip(protolbip) ==
  IF protolbip.Address # ""
  THEN (IF ParseAddr(protolbip.Address).err
        THEN NilPtr
        ELSE Ref(ParseAddr(protolbip.Address).addr))
  ELSE Ref(ZeroAddr)

\* ------------------------------------------------------------ LoadBalancer
ZeroLoadBalancerSpec ==
  [VNI |-> 0, LbVipIP |-> NilPtr, Lbports |-> <<>>, UnderlayRoute |-> NilPtr]
ZeroLoadBalancer ==
  Obj("", [ID |-> ""], ZeroLoadBalancerSpec, ZeroStatus)

LBPortSeqs ==
  { <<>>, <<[Protocol |-> 6, Port |-> 80]>>,
    <<[Protocol |-> 6, Port |-> 80], [Protocol |-> 17, Port |-> 53]>>,
    <<[Protocol |-> 17, Port |-> 53], [Protocol |-> 6, Port |-> 80]>> }

\* ConvertLbports appending the ports from the last wire port to the first.
ConvertLbports_Reversed(ports, p) ==
  [i \in 1..Len(ports) |->
     [p EXCEPT !.Protocol = ports[Len(ports) + 1 - i].Protocol,
               !.Port = ports[Len(ports) + 1 - i].Port]]

RECURSIVE ConvertLbports(_, _)
\* The loop of ProtoLoadBalancerToLoadBalancer over dpdkLB.Lbports, p being
\* the loop-external LBPort that every iteration overwrites and appends.
ConvertLbports(ports, p) ==
  IF ports = <<>> THEN <<>>
  ELSE LET q == [p EXCEPT !.Protocol = Head(ports).Protocol,
                          !.Port = Head(ports).Port]
       IN <<q>> \o ConvertLbports(Tail(ports), q)

ProtoLoadBalancerToLoadBalancer(dpdkLB, lbID) ==
  LET ur == ParseAddr(dpdkLB.UnderlayRoute)
      ip == ParseAddr(dpdkLB.LbVipIP.Address)
  IN IF dpdkLB.UnderlayRoute # "" /\ ur.err
     THEN [obj |-> NilObj, err |-> ConversionErr("error parsing underlay ip")]
     ELSE IF dpdkLB.LbVipIP.Address # "" /\ ip.err
     THEN [obj |-> NilObj, err |-> ConversionErr("error parsing lb ip")]
     ELSE [obj |-> Obj(Kinds.LoadBalancerKind, [ID |-> lbID],
                       [VNI |-> dpdkLB.Vni,
                        LbVipIP |-> Ref(ip.addr),
                        Lbports |-> ConvertLbports(dpdkLB.Lbports,
                                      [Protocol |-> 0, Port |-> 0]),
                        UnderlayRoute |-> Ref(ur.addr)],
                       [Error |-> dpdkLB.Status.Error,
                        Message |-> dpdkLB.Status.Message]),
           err |-> NoErr]

GetLoadBalancer(id, r) ==
  LET c == <<Call("GetLoadBalancer", [LoadBalancerID |-> id])>>
      res == r.res
  IN IF r.terr # NoErr THEN Out(c, ZeroLoadBalancer, r.terr)
     ELSE IF res.Status.Error # 0
     THEN Out(c, Obj(Kinds.LoadBalancerKind, [ID |-> id], ZeroLoadBalancerSpec,
                     ProtoStatusToStatus(res.Status)), ErrServerError)
     ELSE LET cv == ProtoLoadBalancerToLoadBalancer(res, id)
          IN Out(c, cv.obj, cv.err)

\* The response of a create-class call: status and assigned underlay route.
CreateResponses == [Status : WireStatuses, UnderlayRoute : WireV6]

\* CreateLoadBalancer storing the assigned underlay route in the caller's
\* object as well.
CreateLoadBalancer_InPlace(lb, r) ==
  IF ~lb.Spec.LbVipIP.ptr THEN Panic(<<>>)
  ELSE
  LET lbPorts == [i \in 1..Len(lb.Spec.Lbports) |->
                    [Port |-> lb.Spec.Lbports[i].Port,
                     Protocol |-> lb.Spec.Lbports[i].Protocol]]
      c == <<Call("CreateLoadBalancer",
                  [LoadBalancerID |-> lb.Meta.ID, Vni |-> lb.Spec.VNI,
                   LbVipIP |-> LbipToProtoLbip(lb.Spec.LbVipIP.v),
                   Lbports |-> lbPorts])>>
      res == r.res
      retLoadBalancer == Obj(Kinds.LoadBalancerKind, lb.Meta, ZeroLoadBalancerSpec,
                             ProtoStatusToStatus(res.Status))
      underlayRoute == ParseAddr(res.UnderlayRoute)
      spec == [lb.Spec EXCEPT !.UnderlayRoute = Ref(underlayRoute.addr)]
  IN IF r.terr # NoErr THEN Out(c, ZeroLoadBalancer, r.terr)
     ELSE IF res.Status.Error # 0 THEN Out(c, retLoadBalancer, ErrServerError)
     ELSE IF underlayRoute.err
     THEN Out(c, retLoadBalancer, ConversionErr("error parsing underlay route"))
     ELSE [calls |-> c, ret |-> [retLoadBalancer EXCEPT !.Spec = spec], err |-> NoErr,
           panicked |-> FALSE, after |-> [lb |-> [lb EXCEPT !.Spec = spec]]]

CreateLoadBalancer(lb, r) ==
  IF ~lb.Spec.LbVipIP.ptr THEN Panic(<<>>)
  ELSE
  LET lbPorts == [i \in 1..Len(lb.Spec.Lbports) |->
                    [Port |-> lb.Spec.Lbports[i].Port,
                     Protocol |-> lb.Spec.Lbports[i].Protocol]]
      c == <<Call("CreateLoadBalancer",
                  [LoadBalancerID |-> lb.Meta.ID, Vni |-> lb.Spec.VNI,
                   LbVipIP |-> LbipToProtoLbip(lb.Spec.LbVipIP.v),
                   Lbports |-> lbPorts])>>
      res == r.res
      retLoadBalancer == Obj(Kinds.LoadBalancerKind, lb.Meta, ZeroLoadBalancerSpec,
                             ProtoStatusToStatus(res.Status))
      underlayRoute == ParseAddr(res.UnderlayRoute)
  IN IF r.terr # NoErr THEN Out(c, ZeroLoadBalancer, r.terr)
     ELSE IF res.Status.Error # 0 THEN Out(c, retLoadBalancer, ErrServerError)
     ELSE IF underlayRoute.err
     THEN Out(c, retLoadBalancer, ConversionErr("error parsing underlay route"))
     ELSE Out(c, [retLoadBalancer EXCEPT
                    !.Spec = [lb.Spec EXCEPT
                                !.UnderlayRoute = Ref(underlayRoute.addr)]],
              NoErr)

DeleteLoadBalancer(id, r) ==
  LET c == <<Call("DeleteLoadBalancer", [LoadBalancerID |-> id])>>
      res == r.res
      retLoadBalancer == Obj(Kinds.LoadBalancerKind, [ID |-> id], ZeroLoadBalancerSpec,
                             ProtoStatusToStatus(res))
  IN IF r.terr # NoErr THEN Out(c, ZeroLoadBalancer, r.terr)
     ELSE IF res.Error # 0 THEN Out(c, retLoadBalancer, ErrServerError)
     ELSE Out(c, retLoadBalancer, NoErr)

\* ------------------------------------------------------------------ Prefix
ZeroPrefixSpec == [Prefix |-> ZeroPrefix, UnderlayRoute |-> NilPtr]
ZeroPrefixObj == Obj("", [InterfaceID |-> ""], ZeroPrefixSpec, ZeroStatus)
ZeroLoadBalancerPrefix == Obj("", [InterfaceID |-> ""], ZeroPrefixSpec, ZeroStatus)

\* netip.Prefix values a caller may pass.
Prefixes ==
  { PrefixFrom(Addr4("10.20.30.40"), 32), PrefixFrom(Addr6("ff80::1"), 64) }

\* The wire form of a prefix in a request.
PrefixToProto(prefix) ==
  [IpVersion |-> NetIPAddrToProtoIPVersion(prefix.addr),
   Address |-> AddrString(prefix.addr),
   PrefixLength |-> prefix.bits]

ProtoPrefixToPrefix(interfaceID, dpdkPrefix) ==
  LET addr == ParseAddr(dpdkPrefix.Address)
      underlayRoute == ParseAddr(dpdkPrefix.UnderlayRoute)
  IN IF addr.err
     THEN [obj |-> NilObj, err |-> ConversionErr("error parsing dpdk prefix address")]
     ELSE IF underlayRoute.err
     THEN [obj |-> NilObj, err |-> ConversionErr("error parsing underlay route")]
     ELSE [obj |-> Obj(Kinds.PrefixKind, [InterfaceID |-> interfaceID],
                       [Prefix |-> PrefixFrom(addr.addr, dpdkPrefix.PrefixLength),
                        UnderlayRoute |-> Ref(underlayRoute.addr)],
                       ZeroStatus),
           err |-> NoErr]

ProtoLBPrefixToProtoPrefix(lbprefix) ==
  [IpVersion |-> lbprefix.IpVersion, Address |-> lbprefix.Address,
   PrefixLength |-> lbprefix.PrefixLength, UnderlayRoute |-> lbprefix.UnderlayRoute]

\* Sequences over S of length at most n.
SeqsUpTo(S, n) == UNION {[1..k -> S] : k \in 0..n}

\* Index of the first conversion of cvs that failed, 0 if none did: the
\* iteration at which a "for ... { if err != nil { return } }" loop returns.
FirstFailure(cvs) ==
  IF \E i \in DOMAIN cvs : cvs[i].err # NoErr
  THEN CHOOSE i \in DOMAIN cvs :
         cvs[i].err # NoErr /\ \A j \in 1..(i - 1) : cvs[j].err = NoErr
  ELSE 0

\* The status a list-class response carries, as the service description
\* gives one to every response.
ListStatuses ==
  { [Error |-> 0, Message |-> ""], [Error |-> LIST, Message |-> "list failed"] }

PrefixListResponses ==
  [Status : ListStatuses,
   Prefixes : SeqsUpTo(
     [IpVersion : {0}, Address : WireV4, PrefixLength : {24}, UnderlayRoute : WireV6]
       \cup { [IpVersion |-> 0, Address |-> "10.20.30.40", PrefixLength |-> 33,
               UnderlayRoute |-> "ff80::1"] },
     MaxEntries)]

ListLoadBalancerPrefixes(interfaceID, r) ==
  LET c == <<Call("ListInterfaceLoadBalancerPrefixes", [InterfaceID |-> interfaceID])>>
      res == r.res
      cvs == [i \in 1..Len(res.Prefixes) |->
                ProtoPrefixToPrefix(interfaceID,
                                    ProtoLBPrefixToProtoPrefix(res.Prefixes[i]))]
      prefixes == [i \in 1..Len(res.Prefixes) |->
                     [cvs[i].obj EXCEPT !.Kind = Kinds.LoadBalancerPrefixKind]]
  IN IF r.terr # NoErr THEN Out(c, NilObj, r.terr)
     \* prefix.Kind is assigned before err is looked at: prefix is nil then
     ELSE IF FirstFailure(cvs) # 0 THEN Panic(c)
     ELSE Out(c, ListObj("LoadBalancerPrefixList", [InterfaceID |-> interfaceID],
                         ZeroStatus, prefixes), NoErr)

CreateLoadBalancerPrefix(lbprefix, r) ==
  LET c == <<Call("CreateInterfaceLoadBalancerPrefix",
                  [InterfaceID |-> lbprefix.Meta.InterfaceID,
                   Prefix |-> PrefixToProto(lbprefix.Spec.Prefix)])>>
      res == r.res
      retLBPrefix == Obj(Kinds.LoadBalancerPrefixKind, lbprefix.Meta,
                         [Prefix |-> lbprefix.Spec.Prefix, UnderlayRoute |-> NilPtr],
                         ProtoStatusToStatus(res.Status))
      underlayRoute == ParseAddr(res.UnderlayRoute)
  IN IF r.terr # NoErr THEN Out(c, ZeroLoadBalancerPrefix, r.terr)
     ELSE IF res.Status.Error # 0 THEN Out(c, retLBPrefix, ErrServerError)
     ELSE IF underlayRoute.err
     THEN Out(c, retLBPrefix, ConversionErr("error parsing underlay route"))
     ELSE Out(c, [retLBPrefix EXCEPT !.Spec.UnderlayRoute = Ref(underlayRoute.addr)],
              NoErr)

DeleteLoadBalancerPrefix(interfaceID, prefix, r) ==
  LET c == <<Call("DeleteInterfaceLoadBalancerPrefix",
                  [InterfaceID |-> interfaceID, Prefix |-> PrefixToProto(prefix)])>>
      res == r.res
      retLBPrefix == Obj(Kinds.LoadBalancerPrefixKind, [InterfaceID |-> interfaceID],
                         [Prefix |-> prefix, UnderlayRoute |-> NilPtr],
                         ProtoStatusToStatus(res))
  IN IF r.terr # NoErr THEN Out(c, ZeroLoadBalancerPrefix, r.terr)
     ELSE IF res.Error # 0 THEN Out(c, retLBPrefix, ErrServerError)
     ELSE Out(c, retLBPrefix, NoErr)

\* ------------------------------------------------------ LoadBalancerTarget
ZeroLoadBalancerTarget ==
  Obj("", [LoadbalancerID |-> ""], [TargetIP |-> NilPtr], ZeroStatus)

GetLoadBalancerTargets(loadBalancerID, r) ==
  LET c == <<Call("GetLoadBalancerTargets", [LoadBalancerID |-> loadBalancerID])>>
      res == r.res
      lbtargets == [i \in 1..Len(res.TargetIPs) |->
                      Obj(Kinds.LoadBalancerTargetKind,
                          [LoadbalancerID |-> loadBalancerID],
                          [TargetIP |-> ProtoLbipToLbip(res.TargetIPs[i])],
                          ZeroStatus)]
  IN IF r.terr # NoErr
     THEN Out(c, ListObj("", [LoadBalancerID |-> ""], ZeroStatus, <<>>), r.terr)
     ELSE IF res.Status.Error # 0
     THEN Out(c, ListObj(Kinds.LoadBalancerTargetListKind, [LoadBalancerID |-> ""],
                         ProtoStatusToStatus(res.Status), <<>>), ErrServerError)
     ELSE Out(c, ListObj(Kinds.LoadBalancerTargetListKind,
                         [LoadBalancerID |-> loadBalancerID],
                         ZeroStatus, lbtargets), NoErr)

AddLoadBalancerTarget(lbtarget, r) ==
  IF ~lbtarget.Spec.TargetIP.ptr THEN Panic(<<>>)
  ELSE
  LET c == <<Call("AddLoadBalancerTarget",
                  [LoadBalancerID |-> lbtarget.Meta.LoadbalancerID,
                   TargetIP |-> LbipToProtoLbip(lbtarget.Spec.TargetIP.v)])>>
      res == r.res
      retLBTarget == Obj(Kinds.LoadBalancerTargetKind, lbtarget.Meta,
                         [TargetIP |-> NilPtr], ProtoStatusToStatus(res))
  IN IF r.terr # NoErr THEN Out(c, ZeroLoadBalancerTarget, r.terr)
     ELSE IF res.Error # 0 THEN Out(c, retLBTarget, ErrServerError)
     ELSE Out(c, [retLBTarget EXCEPT !.Spec = lbtarget.Spec], NoErr)

DeleteLoadBalancerTarget(lbid, targetIP, r) ==
  LET c == <<Call("DeleteLoadBalancerTarget",
                  [LoadBalancerID |-> lbid, TargetIP |-> LbipToProtoLbip(targetIP)])>>
      res == r.res
      retLBTarget == Obj(Kinds.LoadBalancerTargetKind, [LoadbalancerID |-> lbid],
                         [TargetIP |-> NilPtr], ProtoStatusToStatus(res))
  IN IF r.terr # NoErr THEN Out(c, ZeroLoadBalancerTarget, r.terr)
     ELSE IF res.Error # 0 THEN Out(c, retLBTarget, ErrServerError)
     ELSE Out(c, retLBTarget, NoErr)

\* --------------------------------------------------------------- Interface
ZeroInterfaceSpec ==
  [VNI |-> 0, Device |-> "", IPs |-> <<>>, UnderlayRoute |-> NilPtr,
   VirtualFunction |-> NilPtr, PXE |-> NilPtr, Nat |-> NilPtr, VIP |-> NilPtr]
ZeroInterface == Obj("", [ID |-> ""], ZeroInterfaceSpec, ZeroStatus)

ProtoInterfaceToInterface(dpdkIface) ==
  LET ip4 == ParseAddr(dpdkIface.PrimaryIPv4Address)
      ip6 == ParseAddr(dpdkIface.PrimaryIPv6Address)
      underlayRoute == ParseAddr(dpdkIface.UnderlayRoute)
      ips == (IF dpdkIface.PrimaryIPv4Address # "" THEN <<ip4.addr>> ELSE <<>>)
             \o (IF dpdkIface.PrimaryIPv6Address # "" THEN <<ip6.addr>> ELSE <<>>)
  IN IF dpdkIface.PrimaryIPv4Address # "" /\ ip4.err
     THEN [obj |-> NilObj, err |-> ConversionErr("error parsing primary ipv4")]
     ELSE IF dpdkIface.PrimaryIPv6Address # "" /\ ip6.err
     THEN [obj |-> NilObj, err |-> ConversionErr("error parsing primary ipv6")]
     ELSE IF dpdkIface.UnderlayRoute # "" /\ underlayRoute.err
     THEN [obj |-> NilObj, err |-> ConversionErr("error parsing underlay ip")]
     ELSE [obj |-> Obj(Kinds.InterfaceKind, [ID |-> dpdkIface.InterfaceID],
                       [ZeroInterfaceSpec EXCEPT
                          !.VNI = dpdkIface.Vni,
                          !.Device = dpdkIface.PciDpName,
                          !.IPs = ips,
                          !.UnderlayRoute = Ref(underlayRoute.addr)],
                       ZeroStatus),
           err |-> NoErr]

\* Interfaces as entries of a list response.
ListedInterfaces ==
  [InterfaceID : {"vm4"}, Vni : {100}, PciDpName : {"net_tap5"},
   PrimaryIPv4Address : WireV4, PrimaryIPv6Address : {""}, UnderlayRoute : WireV6]
  \cup [InterfaceID : {"vm5"}, Vni : {200}, PciDpName : {"net_tap6"},
        PrimaryIPv4Address : {""}, PrimaryIPv6Address : {"ff80::2", "bad"},
        UnderlayRoute : {"ff80::1"}]

GetInterface(id, r) ==
  LET c == <<Call("GetInterface", [InterfaceID |-> id])>>
      res == r.res
  IN IF r.terr # NoErr THEN Out(c, ZeroInterface, r.terr)
     ELSE IF res.Status.Error # 0
     THEN Out(c, Obj(Kinds.InterfaceKind, [ID |-> id], ZeroInterfaceSpec,
                     ProtoStatusToStatus(res.Status)), ErrServerError)
     ELSE LET cv == ProtoInterfaceToInterface(res.Interface)
          IN Out(c, cv.obj, cv.err)

ListInterfaces(r) ==
  LET c == <<Call("ListInterfaces", [empty |-> TRUE])>>
      res == r.res
      cvs == [i \in 1..Len(res.Interfaces) |->
                ProtoInterfaceToInterface(res.Interfaces[i])]
      ifaces == [i \in 1..Len(res.Interfaces) |-> cvs[i].obj]
  IN IF r.terr # NoErr THEN Out(c, NilObj, r.terr)
     ELSE IF FirstFailure(cvs) # 0 THEN Out(c, NilObj, cvs[FirstFailure(cvs)].err)
     ELSE Out(c, ListObj(Kinds.InterfaceListKind, [zero |-> TRUE], ZeroStatus, ifaces),
              NoErr)

RECURSIVE FindFamily(_, _)
\* netiputil.FindIPv4 / FindIPv6: the first address of the family, else the
\* zero Addr.
FindFamily(ips, fam) ==
  IF ips = <<>> THEN ZeroAddr
  ELSE IF Head(ips).is = fam THEN Head(ips)
  ELSE FindFamily(Tail(ips), fam)

NetIPAddrToProtoIPConfig(addr) ==
  IF ~IsValid(addr) THEN NilPtr
  ELSE Ref([IpVersion |-> NetIPAddrToProtoIPVersion(addr),
            PrimaryAddress |-> AddrString(addr),
            PxeConfig |-> NilPtr])

\* Interfaces a caller may pass to CreateInterface.
Interfaces ==
  { Obj(kind, [ID |-> id],
        [ZeroInterfaceSpec EXCEPT !.VNI = 200, !.Device = "net_tap5",
                                  !.IPs = ips, !.PXE = pxe],
        ZeroStatus) :
      kind \in {"", Kinds.InterfaceKind}, id \in IDs,
      ips \in { <<>>, <<Addr4("10.20.30.40")>>, <<Addr6("ff80::2")>>,
                <<Addr4("10.20.30.40"), Addr6("ff80::2")>> },
      pxe \in { NilPtr, Ref([Server |-> "", FileName |-> ""]),
                Ref([Server |-> "srv", FileName |-> ""]),
                Ref([Server |-> "srv", FileName |-> "boot"]) } }

CreateInterface(iface, r) ==
  LET ipv4Config == NetIPAddrToProtoIPConfig(FindFamily(iface.Spec.IPs, 4))
      ipv6Config == NetIPAddrToProtoIPConfig(FindFamily(iface.Spec.IPs, 6))
      withPxe == iface.Spec.PXE.v.FileName # "" /\ iface.Spec.PXE.v.Server # ""
      pxeConfig == Ref([NextServer |-> iface.Spec.PXE.v.Server,
                        BootFileName |-> iface.Spec.PXE.v.FileName])
      req == [InterfaceType |-> "VirtualInterface",
              InterfaceID |-> iface.Meta.ID,
              Vni |-> iface.Spec.VNI,
              Ipv4Config |-> IF withPxe
                             THEN Ref([ipv4Config.v EXCEPT !.PxeConfig = pxeConfig])
                             ELSE ipv4Config,
              Ipv6Config |-> IF withPxe
                             THEN Ref([ipv6Config.v EXCEPT !.PxeConfig = pxeConfig])
                             ELSE ipv6Config,
              DeviceName |-> iface.Spec.Device]
      c == <<Call("CreateInterface", req)>>
      res == r.res
      retInterface == Obj(iface.Kind, iface.Meta, ZeroInterfaceSpec,
                          ProtoStatusToStatus(res.Response.Status))
      underlayRoute == ParseAddr(res.Response.UnderlayRoute)
  IN \* iface.Spec.PXE.FileName on a nil PXE
     IF ~iface.Spec.PXE.ptr THEN Panic(<<>>)
     \* req.Ipv4Config.PxeConfig / req.Ipv6Config.PxeConfig on a nil IPConfig
     ELSE IF withPxe /\ (~ipv4Config.ptr \/ ~ipv6Config.ptr) THEN Panic(<<>>)
     ELSE IF r.terr # NoErr THEN Out(c, ZeroInterface, r.terr)
     ELSE IF res.Response.Status.Error # 0 THEN Out(c, retInterface, ErrServerError)
     ELSE IF underlayRoute.err
     THEN Out(c, retInterface, ConversionErr("error parsing underlay route"))
     ELSE Out(c, Obj(Kinds.InterfaceKind, iface.Meta,
                     [ZeroInterfaceSpec EXCEPT
                        !.VNI = iface.Spec.VNI,
                        !.Device = iface.Spec.Device,
                        !.IPs = iface.Spec.IPs,
                        !.UnderlayRoute = Ref(underlayRoute.addr),
                        !.VirtualFunction = Ref(res.Vf),
                        !.PXE = Ref([Server |-> iface.Spec.PXE.v.Server,
                                     FileName |-> iface.Spec.PXE.v.FileName])],
                     ProtoStatusToStatus(res.Response.Status)), NoErr)

\* DeleteInterface reporting a failed call as a server error.
DeleteInterface_Misclassified(id, r) ==
  LET c == <<Call("DeleteInterface", [InterfaceID |-> id])>>
      res == r.res
      retInterface == Obj(Kinds.InterfaceKind, [ID |-> id], ZeroInterfaceSpec,
                          ProtoStatusToStatus(res))
  IN IF r.terr # NoErr THEN Out(c, ZeroInterface, ErrServerError)
     ELSE IF res.Error # 0 THEN Out(c, retInterface, ErrServerError)
     ELSE Out(c, retInterface, NoErr)

DeleteInterface(id, r) ==
  LET c == <<Call("DeleteInterface", [InterfaceID |-> id])>>
      res == r.res
      retInterface == Obj(Kinds.InterfaceKind, [ID |-> id], ZeroInterfaceSpec,
                          ProtoStatusToStatus(res))
  IN IF r.terr # NoErr THEN Out(c, ZeroInterface, r.terr)
     ELSE IF res.Error # 0 THEN Out(c, retInterface, ErrServerError)
     ELSE Out(c, retInterface, NoErr)

\* --------------------------------------------------------------- VirtualIP
ZeroVirtualIPSpec == [IP |-> ZeroAddr, UnderlayRoute |-> NilPtr]
ZeroVirtualIP == Obj("", [InterfaceID |-> ""], ZeroVirtualIPSpec, ZeroStatus)

ProtoVirtualIPToVirtualIP(interfaceID, dpdkVIP) ==
  LET ip == ParseAddr(dpdkVIP.Address)
      underlayRoute == ParseAddr(dpdkVIP.UnderlayRoute)
  IN IF ip.err
     THEN [obj |-> NilObj, err |-> ConversionErr("error parsing virtual ip address")]
     ELSE IF underlayRoute.err
     THEN [obj |-> NilObj, err |-> ConversionErr("error parsing underlay route")]
     ELSE [obj |-> Obj(Kinds.VirtualIPKind, [InterfaceID |-> interfaceID],
                       [IP |-> ip.addr, UnderlayRoute |-> Ref(underlayRoute.addr)],
                       ProtoStatusToStatus(dpdkVIP.Status)),
           err |-> NoErr]

GetVirtualIP(interfaceID, r) ==
  LET c == <<Call("GetInterfaceVIP", [InterfaceID |-> interfaceID])>>
      res == r.res
  IN IF r.terr # NoErr THEN Out(c, ZeroVirtualIP, r.terr)
     ELSE IF res.Status.Error # 0
     THEN Out(c, Obj(Kinds.VirtualIPKind, [InterfaceID |-> interfaceID], ZeroVirtualIPSpec,
                     ProtoStatusToStatus(res.Status)), ErrServerError)
     ELSE LET cv == ProtoVirtualIPToVirtualIP(interfaceID, res)
          IN Out(c, cv.obj, cv.err)

AddVirtualIP(virtualIP, r) ==
  LET c == <<Call("AddInterfaceVIP",
                  [InterfaceID |-> virtualIP.Meta.InterfaceID,
                   InterfaceVIPIP |->
                     [IpVersion |-> NetIPAddrToProtoIPVersion(virtualIP.Spec.IP),
                      Address |-> AddrString(virtualIP.Spec.IP)]])>>
      res == r.res
      retVirtualIP == Obj(Kinds.VirtualIPKind, virtualIP.Meta,
                          [IP |-> virtualIP.Spec.IP, UnderlayRoute |-> NilPtr],
                          ProtoStatusToStatus(res.Status))
      underlayRoute == ParseAddr(res.UnderlayRoute)
  IN IF r.terr # NoErr THEN Out(c, ZeroVirtualIP, r.terr)
     ELSE IF res.Status.Error # 0 THEN Out(c, retVirtualIP, ErrServerError)
     ELSE IF underlayRoute.err
     THEN Out(c, retVirtualIP, ConversionErr("error parsing underlay route"))
     ELSE Out(c, [retVirtualIP EXCEPT !.Spec.UnderlayRoute = Ref(underlayRoute.addr)],
              NoErr)

DeleteVirtualIP(interfaceID, r) ==
  LET c == <<Call("DeleteInterfaceVIP", [InterfaceID |-> interfaceID])>>
      res == r.res
      retVirtualIP == Obj(Kinds.VirtualIPKind, [InterfaceID |-> interfaceID],
                          ZeroVirtualIPSpec, ZeroStatus)
  IN IF r.terr # NoErr THEN Out(c, ZeroVirtualIP, r.terr)
     ELSE IF res.Error # 0 THEN Out(c, retVirtualIP, ErrServerError)
     ELSE Out(c, retVirtualIP, NoErr)

\* --------------------------------------------------- Prefix of an interface
ListPrefixes(interfaceID, r) ==
  LET c == <<Call("ListInterfacePrefixes", [InterfaceID |-> interfaceID])>>
      res == r.res
      cvs == [i \in 1..Len(res.Prefixes) |->
                ProtoPrefixToPrefix(interfaceID, res.Prefixes[i])]
      prefixes == [i \in 1..Len(res.Prefixes) |-> cvs[i].obj]
  IN IF r.terr # NoErr THEN Out(c, NilObj, r.terr)
     ELSE IF FirstFailure(cvs) # 0 THEN Out(c, NilObj, cvs[FirstFailure(cvs)].err)
     ELSE Out(c, ListObj(Kinds.PrefixListKind, [InterfaceID |-> interfaceID],
                         ZeroStatus, prefixes), NoErr)

AddPrefix(prefix, r) ==
  LET c == <<Call("AddInterfacePrefix",
                  [InterfaceID |-> prefix.Meta.InterfaceID,
                   Prefix |-> PrefixToProto(prefix.Spec.Prefix)])>>
      res == r.res
      retPrefix == Obj(Kinds.PrefixKind, prefix.Meta,
                       [Prefix |-> prefix.Spec.Prefix, UnderlayRoute |-> NilPtr],
                       ProtoStatusToStatus(res.Status))
      underlayRoute == ParseAddr(res.UnderlayRoute)
  IN IF r.terr # NoErr THEN Out(c, ZeroPrefixObj, r.terr)
     ELSE IF res.Status.Error # 0 THEN Out(c, retPrefix, ErrServerError)
     ELSE IF underlayRoute.err
     THEN Out(c, retPrefix, ConversionErr("error parsing underlay route"))
     ELSE Out(c, [retPrefix EXCEPT !.Spec.UnderlayRoute = Ref(underlayRoute.addr)],
              NoErr)

DeletePrefix(interfaceID, prefix, r) ==
  LET c == <<Call("DeleteInterfacePrefix",
                  [InterfaceID |-> interfaceID, Prefix |-> PrefixToProto(prefix)])>>
      res == r.res
      retPrefix == Obj(Kinds.PrefixKind, [InterfaceID |-> interfaceID],
                       [Prefix |-> prefix, UnderlayRoute |-> NilPtr],
                       ProtoStatusToStatus(res))
  IN IF r.terr # NoErr THEN Out(c, ZeroPrefixObj, r.terr)
     ELSE IF res.Error # 0 THEN Out(c, retPrefix, ErrServerError)
     ELSE Out(c, retPrefix, NoErr)

\* ------------------------------------------------------------------- Route
ZeroRouteNextHop == [VNI |-> 0, IP |-> NilPtr]
ZeroRoute == Obj("", [VNI |-> 0], [Prefix |-> NilPtr, NextHop |-> NilPtr], ZeroStatus)

\* Routes a caller may pass to AddRoute.
Routes ==
  { Obj("", [VNI |-> vni], [Prefix |-> Ref(p), NextHop |-> nh], ZeroStatus) :
      vni \in VNIs, p \in Prefixes,
      nh \in { NilPtr, Ref([VNI |-> 0, IP |-> NilPtr]),
               Ref([VNI |-> 0, IP |-> Ref(Addr6("ff80::1"))]) } }

AddRoute(route, r) ==
  IF ~route.Spec.NextHop.ptr THEN Panic(<<>>)
  ELSE IF ~route.Spec.NextHop.v.IP.ptr THEN Panic(<<>>)
  ELSE
  LET c == <<Call("AddRoute",
                  [Vni |-> route.Meta.VNI,
                   Route |-> [IpVersion |-> NetIPAddrToProtoIPVersion(
                                               route.Spec.NextHop.v.IP.v),
                              Weight |-> 100,
                              Prefix |-> PrefixToProto(route.Spec.Prefix.v),
                              NexthopVNI |-> route.Spec.NextHop.v.VNI,
                              NexthopAddress |->
                                AddrString(route.Spec.NextHop.v.IP.v)]])>>
      res == r.res
      retRoute == Obj(Kinds.RouteKind, route.Meta,
                      [Prefix |-> route.Spec.Prefix, NextHop |-> Ref(ZeroRouteNextHop)],
                      ProtoStatusToStatus(res))
  IN IF r.terr # NoErr THEN Out(c, ZeroRoute, r.terr)
     ELSE IF res.Error # 0 THEN Out(c, retRoute, ErrServerError)
     ELSE Out(c, [retRoute EXCEPT !.Spec = route.Spec], NoErr)

DeleteRoute(vni, prefix, r) ==
  LET c == <<Call("DeleteRoute",
                  [Vni |-> vni,
                   Route |-> [IpVersion |-> NetIPAddrToProtoIPVersion(prefix.addr),
                              Weight |-> 100,
                              Prefix |-> PrefixToProto(prefix)]])>>
      res == r.res
      retRoute == Obj(Kinds.RouteKind, [VNI |-> vni],
                      [Prefix |-> Ref(prefix), NextHop |-> Ref(ZeroRouteNextHop)],
                      ProtoStatusToStatus(res))
  IN IF r.terr # NoErr THEN Out(c, ZeroRoute, r.terr)
     ELSE IF res.Error # 0 THEN Out(c, retRoute, ErrServerError)
     ELSE Out(c, retRoute, NoErr)

ProtoRouteToRoute(vni, dpdkRoute) ==
  LET prefixAddr == ParseAddr(dpdkRoute.Prefix.Address)
      nextHopIP == ParseAddr(dpdkRoute.NexthopAddress)
  IN IF prefixAddr.err
     THEN [obj |-> NilObj, err |-> ConversionErr("error parsing prefix address")]
     ELSE IF nextHopIP.err
     THEN [obj |-> NilObj, err |-> ConversionErr("error parsing netxt hop address")]
     ELSE [obj |-> Obj(Kinds.RouteKind, [VNI |-> vni],
                       [Prefix |-> Ref(PrefixFrom(prefixAddr.addr,
                                                  dpdkRoute.Prefix.PrefixLength)),
                        NextHop |-> Ref([VNI |-> dpdkRoute.NexthopVNI,
                                         IP |-> Ref(nextHopIP.addr)])],
                       ZeroStatus),
           err |-> NoErr]

\* ListRoutes filling the result from the last wire route to the first.
ListRoutes_Reversed(vni, r) ==
  LET c == <<Call("ListRoutes", [Vni |-> vni])>>
      res == r.res
      cvs == [i \in 1..Len(res.Routes) |-> ProtoRouteToRoute(vni, res.Routes[i])]
      routes == [i \in 1..Len(res.Routes) |-> cvs[Len(res.Routes) + 1 - i].obj]
  IN IF r.terr # NoErr THEN Out(c, NilObj, r.terr)
     ELSE IF FirstFailure(cvs) # 0 THEN Out(c, NilObj, cvs[FirstFailure(cvs)].err)
     ELSE Out(c, ListObj(Kinds.RouteListKind, [VNI |-> vni], ZeroStatus, routes), NoErr)

ListRoutes(vni, r) ==
  LET c == <<Call("ListRoutes", [Vni |-> vni])>>
      res == r.res
      cvs == [i \in 1..Len(res.Routes) |-> ProtoRouteToRoute(vni, res.Routes[i])]
      routes == [i \in 1..Len(res.Routes) |-> cvs[i].obj]
  IN IF r.terr # NoErr THEN Out(c, NilObj, r.terr)
     ELSE IF FirstFailure(cvs) # 0 THEN Out(c, NilObj, cvs[FirstFailure(cvs)].err)
     ELSE Out(c, ListObj(Kinds.RouteListKind, [VNI |-> vni], ZeroStatus, routes), NoErr)

\* --------------------------------------------------------------------- Nat
ZeroNatSpec ==
  [NatVIPIP |-> NilPtr, MinPort |-> 0, MaxPort |-> 0, UnderlayRoute |-> NilPtr]
ZeroNat == Obj("", [InterfaceID |-> ""], ZeroNatSpec, ZeroStatus)

ProtoNatToNat(dpdkNat, interfaceID) ==
  LET underlayRoute == ParseAddr(dpdkNat.UnderlayRoute)
      natvipip == ParseAddr(dpdkNat.NatVIPIP.Address)
  IN IF dpdkNat.UnderlayRoute # "" /\ underlayRoute.err
     THEN [obj |-> NilObj, err |-> ConversionErr("error parsing underlay ip")]
     ELSE IF dpdkNat.NatVIPIP.Address # "" /\ natvipip.err
     THEN [obj |-> NilObj, err |-> ConversionErr("error parsing nat ip")]
     ELSE [obj |-> Obj(Kinds.NatKind, [InterfaceID |-> interfaceID],
                       [NatVIPIP |-> Ref(natvipip.addr),
                        MinPort |-> dpdkNat.MinPort,
                        MaxPort |-> dpdkNat.MaxPort,
                        UnderlayRoute |-> Ref(underlayRoute.addr)],
                       [Error |-> dpdkNat.Status.Error,
                        Message |-> dpdkNat.Status.Message]),
           err |-> NoErr]

GetNat(interfaceID, r) ==
  LET c == <<Call("GetNAT", [InterfaceID |-> interfaceID])>>
      res == r.res
  IN IF r.terr # NoErr THEN Out(c, ZeroNat, r.terr)
     ELSE IF res.Status.Error # 0
     THEN Out(c, Obj(Kinds.NatKind, [InterfaceID |-> interfaceID], ZeroNatSpec,
                     ProtoStatusToStatus(res.Status)), ErrServerError)
     ELSE LET cv == ProtoNatToNat(res, interfaceID)
          IN Out(c, cv.obj, cv.err)

\* Nats a caller may pass to AddNat.
Nats ==
  { Obj("", [InterfaceID |-> id],
        [NatVIPIP |-> ip, MinPort |-> 30000, MaxPort |-> 30100,
         UnderlayRoute |-> NilPtr], ZeroStatus) :
      id \in IDs, ip \in {NilPtr, Ref(Addr4("10.20.30.40")), Ref(Addr4("10.20.30.41"))} }

\* AddNat returning the caller's Spec without the assigned underlay route.
AddNat_WithoutUnderlay(nat, r) ==
  IF ~nat.Spec.NatVIPIP.ptr THEN Panic(<<>>)
  ELSE
  LET c == <<Call("AddNAT",
                  [InterfaceID |-> nat.Meta.InterfaceID,
                   NatVIPIP |-> [IpVersion |->
                                   NetIPAddrToProtoIPVersion(nat.Spec.NatVIPIP.v),
                                 Address |-> AddrString(nat.Spec.NatVIPIP.v)],
                   MinPort |-> nat.Spec.MinPort,
                   MaxPort |-> nat.Spec.MaxPort])>>
      res == r.res
      retNat == Obj(Kinds.NatKind, nat.Meta, ZeroNatSpec, ProtoStatusToStatus(res.Status))
  IN IF r.terr # NoErr THEN Out(c, ZeroNat, r.terr)
     ELSE IF res.Status.Error # 0 THEN Out(c, retNat, ErrServerError)
     ELSE Out(c, [retNat EXCEPT !.Spec = nat.Spec], NoErr)

AddNat(nat, r) ==
  IF ~nat.Spec.NatVIPIP.ptr THEN Panic(<<>>)
  ELSE
  LET c == <<Call("AddNAT",
                  [InterfaceID |-> nat.Meta.InterfaceID,
                   NatVIPIP |-> [IpVersion |->
                                   NetIPAddrToProtoIPVersion(nat.Spec.NatVIPIP.v),
                                 Address |-> AddrString(nat.Spec.NatVIPIP.v)],
                   MinPort |-> nat.Spec.MinPort,
                   MaxPort |-> nat.Spec.MaxPort])>>
      res == r.res
      retNat == Obj(Kinds.NatKind, nat.Meta, ZeroNatSpec, ProtoStatusToStatus(res.Status))
      underlayRoute == ParseAddr(res.UnderlayRoute)
  IN IF r.terr # NoErr THEN Out(c, ZeroNat, r.terr)
     ELSE IF res.Status.Error # 0 THEN Out(c, retNat, ErrServerError)
     ELSE IF underlayRoute.err
     THEN Out(c, retNat, ConversionErr("error parsing underlay route"))
     ELSE Out(c, [retNat EXCEPT
                    !.Spec = [nat.Spec EXCEPT
                                !.UnderlayRoute = Ref(underlayRoute.addr)]],
              NoErr)

DeleteNat(interfaceID, r) ==
  LET c == <<Call("DeleteNAT", [InterfaceID |-> interfaceID])>>
      res == r.res
      retNat == Obj(Kinds.NatKind, [InterfaceID |-> interfaceID], ZeroNatSpec,
                    ProtoStatusToStatus(res))
  IN IF r.terr # NoErr THEN Out(c, ZeroNat, r.terr)
     ELSE IF res.Error # 0 THEN Out(c, retNat, ErrServerError)
     ELSE Out(c, retNat, NoErr)

\* ------------------------------------------------------------- NeighborNat
ZeroNeighborNatSpec ==
  [Vni |-> 0, MinPort |-> 0, MaxPort |-> 0, UnderlayRoute |-> NilPtr]
ZeroNeighborNat == Obj("", [NatVIPIP |-> NilPtr], ZeroNeighborNatSpec, ZeroStatus)

\* Neighbor NATs a caller may pass.
NeighborNats ==
  { Obj("", [NatVIPIP |-> ip],
        [Vni |-> 100, MinPort |-> 30000, MaxPort |-> 30100, UnderlayRoute |-> ur],
        ZeroStatus) :
      ip \in {NilPtr, Ref(Addr4("10.20.30.40")), Ref(Addr4("10.20.30.41"))},
      ur \in {NilPtr, Ref(Addr6("ff80::1"))} }

AddNeighborNat(nNat, r) ==
  IF ~nNat.Meta.NatVIPIP.ptr \/ ~nNat.Spec.UnderlayRoute.ptr THEN Panic(<<>>)
  ELSE
  LET c == <<Call("AddNeighborNAT",
                  [NatVIPIP |-> [IpVersion |->
                                   NetIPAddrToProtoIPVersion(nNat.Meta.NatVIPIP.v),
                                 Address |-> AddrString(nNat.Meta.NatVIPIP.v)],
                   Vni |-> nNat.Spec.Vni,
                   MinPort |-> nNat.Spec.MinPort,
                   MaxPort |-> nNat.Spec.MaxPort,
                   UnderlayRoute |-> AddrString(nNat.Spec.UnderlayRoute.v)])>>
      res == r.res
      retnNat == Obj(Kinds.NeighborNatKind, nNat.Meta, ZeroNeighborNatSpec,
                     ProtoStatusToStatus(res))
  IN IF r.terr # NoErr THEN Out(c, ZeroNeighborNat, r.terr)
     ELSE IF res.Error # 0 THEN Out(c, retnNat, ErrServerError)
     ELSE Out(c, [retnNat EXCEPT !.Spec = nNat.Spec], NoErr)

DeleteNeighborNat(neigbhorNat, r) ==
  IF ~neigbhorNat.Meta.NatVIPIP.ptr THEN Panic(<<>>)
  ELSE
  LET c == <<Call("DeleteNeighborNAT",
                  [NatVIPIP |-> [IpVersion |-> NetIPAddrToProtoIPVersion(
                                                 neigbhorNat.Meta.NatVIPIP.v),
                                 Address |-> AddrString(neigbhorNat.Meta.NatVIPIP.v)],
                   Vni |-> neigbhorNat.Spec.Vni,
                   MinPort |-> neigbhorNat.Spec.MinPort,
                   MaxPort |-> neigbhorNat.Spec.MaxPort])>>
      res == r.res
      nnat == Obj(Kinds.NeighborNatKind, neigbhorNat.Meta, ZeroNeighborNatSpec,
                  ProtoStatusToStatus(res))
  IN IF r.terr # NoErr THEN Out(c, ZeroNeighborNat, r.terr)
     ELSE IF res.Error # 0 THEN Out(c, nnat, ErrServerError)
     ELSE Out(c, nnat, NoErr)

\* -------------------------------------------------------------- GetNATInfo
\* strings.ToLower on the tokens of the model.
ToLower(s) ==
  CASE s \in {"ANY", "Any"} -> "any"
    [] s \in {"LOCAL", "Local"} -> "local"
    [] s \in {"NEIGH", "Neigh"} -> "neigh"
    [] s \in {"NEIGHBOR", "Neighbor"} -> "neighbor"
    [] s \in {"ACCEPT", "Accept"} -> "accept"
    [] s \in {"ALLOW", "Allow"} -> "allow"
    [] s \in {"DROP", "Drop"} -> "drop"
    [] s \in {"DENY", "Deny"} -> "deny"
    [] s \in {"INGRESS", "Ingress"} -> "ingress"
    [] s \in {"EGRESS", "Egress"} -> "egress"
    [] s \in {"IPV4", "IPv4"} -> "ipv4"
    [] s \in {"IPV6", "IPv6"} -> "ipv6"
    [] s = "Bogus" -> "bogus"
    [] OTHER -> s

GetNATInfoResponses ==
  [Status : ListStatuses, NatVIPIP : [Address : {"", "10.20.30.40"}],
   NatInfoEntries : SeqsUpTo(
     { [UnderlayRoute |-> NilPtr, MinPort |-> 100, MaxPort |-> 200],
       [UnderlayRoute |-> Ref("ff80::1"), MinPort |-> 300, MaxPort |-> 400],
       [UnderlayRoute |-> Ref("bad"), MinPort |-> 500, MaxPort |-> 600] },
     MaxNatEntries)]

RECURSIVE ConvertNatInfoEntries(_, _, _)
\* The loop of GetNATInfo over the entries of res; nat is the api.Nat
\* declared before the loop, which every iteration updates and copies into
\* the result, vip is res.NatVIPIP.Address.
ConvertNatInfoEntries(entries, nat, vip) ==
  IF entries = <<>> THEN [items |-> <<>>, err |-> NoErr]
  ELSE
  LET natInfoEntry == Head(entries)
      underlayRoute == ParseAddr(natInfoEntry.UnderlayRoute.v)
      vipIP == ParseAddr(vip)
      nat1 == IF natInfoEntry.UnderlayRoute.ptr
              THEN [nat EXCEPT !.Spec.UnderlayRoute = Ref(underlayRoute.addr),
                               !.Spec.NatVIPIP = Ref(vipIP.addr)]
              ELSE [nat EXCEPT !.Spec.NatVIPIP = NilPtr]
      nat2 == [nat1 EXCEPT !.Kind = Kinds.NatKind,
                           !.Spec.MinPort = natInfoEntry.MinPort,
                           !.Spec.MaxPort = natInfoEntry.MaxPort]
      rest == ConvertNatInfoEntries(Tail(entries), nat2, vip)
  IN IF natInfoEntry.UnderlayRoute.ptr /\ underlayRoute.err
     THEN [items |-> <<>>, err |-> ConversionErr("error parsing underlay route")]
     ELSE IF natInfoEntry.UnderlayRoute.ptr /\ vipIP.err
     THEN [items |-> <<>>, err |-> ConversionErr("error parsing vip ip")]
     ELSE IF rest.err # NoErr THEN rest
     ELSE [items |-> <<nat2>> \o rest.items, err |-> NoErr]

\* NatInfoTypeOf without the "neighbor" synonym in its Neighbor case, so
\* that the long form falls to the Any case.
NatInfoTypeOf_NeighborAsAny(natType) ==
  CASE ToLower(natType) \in {"local", "1"} -> 1
    [] ToLower(natType) \in {"neigh", "2"} -> 2
    [] ToLower(natType) \in {"any", "0", "", "neighbor"} -> 0
    [] OTHER -> -1

\* The wire code of a query-type token, -1 for an unrecognized one.
NatInfoTypeOf(natType) ==
  CASE ToLower(natType) \in {"local", "1"} -> 1
    [] ToLower(natType) \in {"neigh", "2", "neighbor"} -> 2
    [] ToLower(natType) \in {"any", "0", ""} -> 0
    [] OTHER -> -1

GetNATInfoRequest(natVIPIP, nType) ==
  Call("GetNATInfo",
       [NatVIPIP |-> [IpVersion |-> NetIPAddrToProtoIPVersion(natVIPIP),
                      Address |-> AddrString(natVIPIP)],
        NatInfoType |-> nType])

\* NATInfoMerged taking the top-level VIP from the Local response.
NATInfoMerged_ReportedVIP(natVIPIP, res1, res2) ==
  [NatVIPIP |-> [Address |-> res1.NatVIPIP.Address],
   NatInfoEntries |-> res1.NatInfoEntries \o res2.NatInfoEntries]

\* NATInfoMerged appending the Neighbor entries before the Local ones.
NATInfoMerged_NeighborFirst(natVIPIP, res1, res2) ==
  [NatVIPIP |-> [Address |-> AddrString(natVIPIP)],
   NatInfoEntries |-> res2.NatInfoEntries \o res1.NatInfoEntries]

\* The response GetNATInfo converts: the single response, or for type Any
\* the one it builds from the two sub-call responses.
NATInfoMerged(natVIPIP, res1, res2) ==
  [NatVIPIP |-> [Address |-> AddrString(natVIPIP)],
   NatInfoEntries |-> res1.NatInfoEntries \o res2.NatInfoEntries]

\* NATInfoFetch issuing the Neighbor call whether or not the Local call
\* failed.
NATInfoFetch_BothCalls(natVIPIP, nType, r1, r2) ==
  LET c12 == <<GetNATInfoRequest(natVIPIP, 1), GetNATInfoRequest(natVIPIP, 2)>>
      c == <<GetNATInfoRequest(natVIPIP, nType)>>
  IN IF nType = 0
     THEN (IF r1.terr # NoErr THEN [calls |-> c12, terr |-> r1.terr, res |-> NilRes]
           ELSE IF r2.terr # NoErr
           THEN [calls |-> c12, terr |-> r2.terr, res |-> NilRes]
           ELSE [calls |-> c12, terr |-> NoErr,
                 res |-> NATInfoMerged(natVIPIP, r1.res, r2.res)])
     ELSE (IF r1.terr # NoErr THEN [calls |-> c, terr |-> r1.terr, res |-> NilRes]
           ELSE [calls |-> c, terr |-> NoErr, res |-> r1.res])

\* NATInfoFetch keeping the Local entries when the Neighbor call fails.
NATInfoFetch_PartialResult(natVIPIP, nType, r1, r2) ==
  LET c1 == <<GetNATInfoRequest(natVIPIP, 1)>>
      c12 == <<GetNATInfoRequest(natVIPIP, 1), GetNATInfoRequest(natVIPIP, 2)>>
      c == <<GetNATInfoRequest(natVIPIP, nType)>>
  IN IF nType = 0
     THEN (IF r1.terr # NoErr THEN [calls |-> c1, terr |-> r1.terr, res |-> NilRes]
           ELSE IF r2.terr # NoErr
           THEN [calls |-> c12, terr |-> NoErr,
                 res |-> [NatVIPIP |-> [Address |-> AddrString(natVIPIP)],
                          NatInfoEntries |-> r1.res.NatInfoEntries]]
           ELSE [calls |-> c12, terr |-> NoErr,
                 res |-> NATInfoMerged(natVIPIP, r1.res, r2.res)])
     ELSE (IF r1.terr # NoErr THEN [calls |-> c, terr |-> r1.terr, res |-> NilRes]
           ELSE [calls |-> c, terr |-> NoErr, res |-> r1.res])

\* The calls GetNATInfo issues for wire type nType (0: Any) and what they
\* leave to convert: for Any the Local call, then the Neighbor call, each
\* ending the operation when it fails; otherwise the one call.
NATInfoFetch(natVIPIP, nType, r1, r2) ==
  LET c1 == <<GetNATInfoRequest(natVIPIP, 1)>>
      c12 == <<GetNATInfoRequest(natVIPIP, 1), GetNATInfoRequest(natVIPIP, 2)>>
      c == <<GetNATInfoRequest(natVIPIP, nType)>>
  IN IF nType = 0
     THEN (IF r1.terr # NoErr THEN [calls |-> c1, terr |-> r1.terr, res |-> NilRes]
           ELSE IF r2.terr # NoErr
           THEN [calls |-> c12, terr |-> r2.terr, res |-> NilRes]
           ELSE [calls |-> c12, terr |-> NoErr,
                 res |-> NATInfoMerged(natVIPIP, r1.res, r2.res)])
     ELSE (IF r1.terr # NoErr THEN [calls |-> c, terr |-> r1.terr, res |-> NilRes]
           ELSE [calls |-> c, terr |-> NoErr, res |-> r1.res])

\* GetNATInfo issuing a failed call a second time before giving up.
GetNATInfo_Retrying(natVIPIP, natType, r1, r2) ==
  LET nType == NatInfoTypeOf(natType)
      f == NATInfoFetch(natVIPIP, nType, r1, r2)
      cv == ConvertNatInfoEntries(f.res.NatInfoEntries, ZeroNat,
                                  f.res.NatVIPIP.Address)
  IN IF nType = -1
     THEN Out(<<>>, NilObj,
              EnumErr("nat info type can be only: Any = 0/Local = 1/Neigh(bor) = 2"))
     ELSE IF f.terr # NoErr /\ Len(f.calls) = 1
     THEN Out(f.calls \o f.calls, NilObj, f.terr)
     ELSE IF f.terr # NoErr THEN Out(f.calls, NilObj, f.terr)
     ELSE IF cv.err # NoErr THEN Out(f.calls, NilObj, cv.err)
     ELSE Out(f.calls,
              ListObj(Kinds.NatListKind,
                      [NatIP |-> Ref(natVIPIP), NatInfoType |-> natType],
                      ZeroStatus, cv.items),
              NoErr)

GetNATInfo(natVIPIP, natType, r1, r2) ==
  LET nType == NatInfoTypeOf(natType)
      f == NATInfoFetch(natVIPIP, nType, r1, r2)
      cv == ConvertNatInfoEntries(f.res.NatInfoEntries, ZeroNat,
                                  f.res.NatVIPIP.Address)
  IN IF nType = -1
     THEN Out(<<>>, NilObj,
              EnumErr("nat info type can be only: Any = 0/Local = 1/Neigh(bor) = 2"))
     ELSE IF f.terr # NoErr THEN Out(f.calls, NilObj, f.terr)
     ELSE IF cv.err # NoErr THEN Out(f.calls, NilObj, cv.err)
     ELSE Out(f.calls,
              ListObj(Kinds.NatListKind,
                      [NatIP |-> Ref(natVIPIP), NatInfoType |-> natType],
                      ZeroStatus, cv.items),
              NoErr)

\* ------------------------------------------------------------ FirewallRule
ZeroFirewallRuleSpec ==
  [RuleID |-> "", TrafficDirection |-> "", FirewallAction |-> "", Priority |-> 0,
   IpVersion |-> "", SourcePrefix |-> NilPtr, DestinationPrefix |-> NilPtr,
   ProtocolFilter |-> NilPtr]
ZeroFirewallRule == Obj("", [InterfaceID |-> ""], ZeroFirewallRuleSpec, ZeroStatus)
ZeroFirewallRuleList == ListObj("", [InterfaceID |-> ""], ZeroStatus, <<>>)

RuleIDs == {"fr-1", "fr-2"}

\* netip.ParsePrefix(address + "/" + strconv.Itoa(length)).
ParsePrefix(address, length) ==
  LET ip == ParseAddr(address)
  IN IF ip.err \/ length < 0 \/ length > BitLen(ip.addr)
     THEN [err |-> TRUE, prefix |-> ZeroPrefix]
     ELSE [err |-> FALSE, prefix |-> PrefixFrom(ip.addr, length)]

\* ProtoFwRuleToFwRule reading direction code 0 as Egress.
ProtoFwRuleToFwRule_DirectionSwapped(dpdkFwRule, interfaceID) ==
  LET srcPrefix == ParsePrefix(dpdkFwRule.SourcePrefix.Address,
                               dpdkFwRule.SourcePrefix.PrefixLength)
      dstPrefix == ParsePrefix(dpdkFwRule.DestinationPrefix.Address,
                               dpdkFwRule.DestinationPrefix.PrefixLength)
      direction == IF dpdkFwRule.Direction = 0 THEN "Egress" ELSE "Ingress"
      action == IF dpdkFwRule.Action = 0 THEN "Drop" ELSE "Accept"
      ipv == IF dpdkFwRule.IpVersion = 0 THEN "IPv4" ELSE "IPv6"
  IN IF srcPrefix.err \/ dstPrefix.err
     THEN [obj |-> NilObj, err |-> ConversionErr("error converting prefix")]
     ELSE [obj |-> Obj(Kinds.FirewallRuleKind, [InterfaceID |-> interfaceID],
                       [RuleID |-> dpdkFwRule.RuleID,
                        TrafficDirection |-> direction,
                        FirewallAction |-> action,
                        Priority |-> dpdkFwRule.Priority,
                        IpVersion |-> ipv,
                        SourcePrefix |-> Ref(srcPrefix.prefix),
                        DestinationPrefix |-> Ref(dstPrefix.prefix),
                        ProtocolFilter |-> dpdkFwRule.ProtocolFilter],
                       ZeroStatus),
           err |-> NoErr]

ProtoFwRuleToFwRule(dpdkFwRule, interfaceID) ==
  LET srcPrefix == ParsePrefix(dpdkFwRule.SourcePrefix.Address,
                               dpdkFwRule.SourcePrefix.PrefixLength)
      dstPrefix == ParsePrefix(dpdkFwRule.DestinationPrefix.Address,
                               dpdkFwRule.DestinationPrefix.PrefixLength)
      direction == IF dpdkFwRule.Direction = 0 THEN "Ingress" ELSE "Egress"
      action == IF dpdkFwRule.Action = 0 THEN "Drop" ELSE "Accept"
      ipv == IF dpdkFwRule.IpVersion = 0 THEN "IPv4" ELSE "IPv6"
  IN IF srcPrefix.err \/ dstPrefix.err
     THEN [obj |-> NilObj, err |-> ConversionErr("error converting prefix")]
     ELSE [obj |-> Obj(Kinds.FirewallRuleKind, [InterfaceID |-> interfaceID],
                       [RuleID |-> dpdkFwRule.RuleID,
                        TrafficDirection |-> direction,
                        FirewallAction |-> action,
                        Priority |-> dpdkFwRule.Priority,
                        IpVersion |-> ipv,
                        SourcePrefix |-> Ref(srcPrefix.prefix),
                        DestinationPrefix |-> Ref(dstPrefix.prefix),
                        ProtocolFilter |-> dpdkFwRule.ProtocolFilter],
                       ZeroStatus),
           err |-> NoErr]

\* Firewall rules as a response carries them.
WireFwRules ==
  [RuleID : {"fr-1"}, Direction : {0, 1}, Action : {0, 1}, Priority : {1000},
   IpVersion : {0},
   SourcePrefix : { [IpVersion |-> 0, Address |-> "10.20.30.40", PrefixLength |-> 32] },
   DestinationPrefix : { [IpVersion |-> 0, Address |-> "10.20.30.41", PrefixLength |-> 24] },
   ProtocolFilter : {NilPtr}]
  \cup
  [RuleID : {"fr-2"}, Direction : {0}, Action : {1}, Priority : {1000},
   IpVersion : {1},
   SourcePrefix : [IpVersion : {1}, Address : {"", "ff80::1", "bad"}, PrefixLength : {64}],
   DestinationPrefix : [IpVersion : {1}, Address : {"ff80::2"}, PrefixLength : {64, 129}],
   ProtocolFilter : {NilPtr}]

ListFirewallRules(interfaceID, r) ==
  LET c == <<Call("ListFirewallRules", [InterfaceID |-> interfaceID])>>
      res == r.res
      cvs == [i \in 1..Len(res.Rules) |-> ProtoFwRuleToFwRule(res.Rules[i], interfaceID)]
      fwRules == [i \in 1..Len(res.Rules) |-> cvs[i].obj]
  IN IF r.terr # NoErr THEN Out(c, ZeroFirewallRuleList, r.terr)
     ELSE IF FirstFailure(cvs) # 0
     THEN Out(c, ZeroFirewallRuleList, cvs[FirstFailure(cvs)].err)
     ELSE Out(c, ListObj(Kinds.FirewallRuleListKind, [InterfaceID |-> interfaceID],
                         ZeroStatus, fwRules), NoErr)

\* ActionOf with "allow" taken for a Drop synonym.
ActionOf_AllowIsDrop(token) ==
  CASE ToLower(token) \in {"accept", "1"} -> [code |-> 1, canon |-> "Accept"]
    [] ToLower(token) \in {"drop", "deny", "allow", "0"} -> [code |-> 0, canon |-> "Drop"]
    [] OTHER -> [code |-> -1, canon |-> token]

\* DirectionOf taking every unrecognized token for Ingress.
DirectionOf_DefaultIngress(token) ==
  CASE ToLower(token) \in {"egress", "1"} -> [code |-> 1, canon |-> "Egress"]
    [] OTHER -> [code |-> 0, canon |-> "Ingress"]

\* The wire code and canonical string of an enum token; code -1 for an
\* unrecognized token.
ActionOf(token) ==
  CASE ToLower(token) \in {"accept", "allow", "1"} -> [code |-> 1, canon |-> "Accept"]
    [] ToLower(token) \in {"drop", "deny", "0"} -> [code |-> 0, canon |-> "Drop"]
    [] OTHER -> [code |-> -1, canon |-> token]
DirectionOf(token) ==
  CASE ToLower(token) \in {"ingress", "0"} -> [code |-> 0, canon |-> "Ingress"]
    [] ToLower(token) \in {"egress", "1"} -> [code |-> 1, canon |-> "Egress"]
    [] OTHER -> [code |-> -1, canon |-> token]
\* IpVersionOf leaving the caller's token as it was given.
IpVersionOf_NotRewritten(token) ==
  CASE ToLower(token) \in {"ipv4", "0"} -> [code |-> 0, canon |-> token]
    [] ToLower(token) \in {"ipv6", "1"} -> [code |-> 1, canon |-> token]
    [] OTHER -> [code |-> -1, canon |-> token]

IpVersionOf(token) ==
  CASE ToLower(token) \in {"ipv4", "0"} -> [code |-> 0, canon |-> "IPv4"]
    [] ToLower(token) \in {"ipv6", "1"} -> [code |-> 1, canon |-> "IPv6"]
    [] OTHER -> [code |-> -1, canon |-> token]

\* AddFirewallRule rewrites the enum strings of the caller's rule in place;
\* after is the caller's rule when the operation ends.
AddFirewallRule(fwRule, r) ==
  LET action == ActionOf(fwRule.Spec.FirewallAction)
      direction == DirectionOf(fwRule.Spec.TrafficDirection)
      ipv == IpVersionOf(fwRule.Spec.IpVersion)
      fw1 == [fwRule EXCEPT !.Spec.FirewallAction = action.canon]
      fw2 == [fw1 EXCEPT !.Spec.TrafficDirection = direction.canon]
      fw3 == [fw2 EXCEPT !.Spec.IpVersion = ipv.canon]
      c == <<Call("AddFirewallRule",
                  [InterfaceID |-> fw3.Meta.InterfaceID,
                   Rule |-> [RuleID |-> fw3.Spec.RuleID,
                             Direction |-> direction.code,
                             Action |-> action.code,
                             Priority |-> fw3.Spec.Priority,
                             IpVersion |-> ipv.code,
                             SourcePrefix |->
                               [IpVersion |-> ipv.code,
                                Address |-> AddrString(fw3.Spec.SourcePrefix.v.addr),
                                PrefixLength |-> fw3.Spec.SourcePrefix.v.bits],
                             DestinationPrefix |->
                               [IpVersion |-> ipv.code,
                                Address |-> AddrString(fw3.Spec.DestinationPrefix.v.addr),
                                PrefixLength |-> fw3.Spec.DestinationPrefix.v.bits],
                             ProtocolFilter |-> fw3.Spec.ProtocolFilter]])>>
      res == r.res
      retFwrule == Obj(Kinds.FirewallRuleKind, [InterfaceID |-> fw3.Meta.InterfaceID],
                       [ZeroFirewallRuleSpec EXCEPT !.RuleID = fw3.Spec.RuleID],
                       ProtoStatusToStatus(res.Status))
      With(o, a) == [calls |-> o.calls, ret |-> o.ret, err |-> o.err,
                     panicked |-> o.panicked, after |-> [fwRule |-> a]]
  IN IF action.code = -1
     THEN With(Out(<<>>, ZeroFirewallRule,
                   EnumErr("firewall action can be only: drop/deny/0|accept/allow/1")),
               fwRule)
     ELSE IF direction.code = -1
     THEN With(Out(<<>>, ZeroFirewallRule,
                   EnumErr("traffic direction can be only: Ingress = 0/Egress = 1")),
               fw1)
     ELSE IF ipv.code = -1
     THEN With(Out(<<>>, ZeroFirewallRule,
                   EnumErr("ip version can be only: IPv4 = 0/IPv6 = 1")),
               fw2)
     ELSE IF ~fw3.Spec.SourcePrefix.ptr \/ ~fw3.Spec.DestinationPrefix.ptr
     THEN With(Panic(<<>>), fw3)
     ELSE IF r.terr # NoErr THEN With(Out(c, ZeroFirewallRule, r.terr), fw3)
     ELSE IF res.Status.Error # 0 THEN With(Out(c, retFwrule, ErrServerError), fw3)
     ELSE With(Out(c, [retFwrule EXCEPT !.Spec = fw3.Spec], NoErr), fw3)

\* The method as implemented: its first string parameter is ruleID, its
\* second interfaceID.
GetFirewallRule(ruleID, interfaceID, r) ==
  LET c == <<Call("GetFirewallRule", [InterfaceID |-> interfaceID, RuleID |-> ruleID])>>
      res == r.res
  IN IF r.terr # NoErr THEN Out(c, ZeroFirewallRule, r.terr)
     ELSE IF res.Status.Error # 0
     THEN Out(c, Obj(Kinds.FirewallRuleKind, [InterfaceID |-> interfaceID],
                     [ZeroFirewallRuleSpec EXCEPT !.RuleID = ruleID],
                     ProtoStatusToStatus(res.Status)), ErrServerError)
     ELSE LET cv == ProtoFwRuleToFwRule(res.Rule, interfaceID)
          IN Out(c, cv.obj, cv.err)

DeleteFirewallRule(interfaceID, ruleID, r) ==
  LET c == <<Call("DeleteFirewallRule", [InterfaceID |-> interfaceID, RuleID |-> ruleID])>>
      res == r.res
      retFwrule == Obj(Kinds.FirewallRuleKind, [InterfaceID |-> interfaceID],
                       [ZeroFirewallRuleSpec EXCEPT !.RuleID = ruleID],
                       ProtoStatusToStatus(res))
  IN IF r.terr # NoErr THEN Out(c, ZeroFirewallRule, r.terr)
     ELSE IF res.Error # 0 THEN Out(c, retFwrule, ErrServerError)
     ELSE Out(c, retFwrule, NoErr)

\* ------------------------------------------------- Initialized, Init, Vni
ZeroInit == Obj("", [zero |-> TRUE], [zero |-> TRUE], ZeroStatus)
ZeroVni == Obj("", [VNI |-> 0, VniType |-> 0], [InUse |-> FALSE], ZeroStatus)

\* Initialized answering from the result of the invocation before it when
\* that one succeeded, without a call.
Initialized_Cached(r) ==
  LET c == <<Call("Initialized", [empty |-> TRUE])>>
  IN IF op = "Initialized" /\ err = NoErr THEN Out(<<>>, ret, NoErr)
     ELSE IF r.terr # NoErr THEN Out(c, [str |-> ""], r.terr)
     ELSE Out(c, [str |-> r.res.Uuid], NoErr)

\* Initialized returns the UUID string in place of an object.
Initialized(r) ==
  LET c == <<Call("Initialized", [empty |-> TRUE])>>
  IN IF r.terr # NoErr THEN Out(c, [str |-> ""], r.terr)
     ELSE Out(c, [str |-> r.res.Uuid], NoErr)

InitOp(initConfig, r) ==
  LET c == <<Call("Init", initConfig)>>
      res == r.res
  IN IF r.terr # NoErr THEN Out(c, ZeroInit, r.terr)
     ELSE IF res.Error # 0
     THEN Out(c, [ZeroInit EXCEPT !.Status = ProtoStatusToStatus(res)], ErrServerError)
     ELSE Out(c, [ZeroInit EXCEPT !.Kind = "Init", !.Status = ProtoStatusToStatus(res)],
              NoErr)

VniTypes == {0, 1}

GetVni(vni, vniType, r) ==
  LET c == <<Call("IsVniInUse", [Vni |-> vni, Type |-> vniType])>>
      res == r.res
      retVni == Obj(Kinds.VniKind, [VNI |-> vni, VniType |-> vniType], [InUse |-> FALSE],
                    ProtoStatusToStatus(res.Status))
  IN IF r.terr # NoErr THEN Out(c, ZeroVni, r.terr)
     ELSE IF res.Status.Error # 0 THEN Out(c, retVni, ErrServerError)
     ELSE Out(c, [retVni EXCEPT !.Spec.InUse = res.InUse], NoErr)

\* ResetVni without the check of the embedded status.
ResetVni_Unchecked(vni, vniType, r) ==
  LET c == <<Call("ResetVni", [Vni |-> vni, Type |-> vniType])>>
      res == r.res
      retVni == Obj(Kinds.VniKind, [VNI |-> vni, VniType |-> vniType], [InUse |-> FALSE],
                    ProtoStatusToStatus(res))
  IN IF r.terr # NoErr THEN Out(c, ZeroVni, r.terr)
     ELSE Out(c, retVni, NoErr)

ResetVni(vni, vniType, r) ==
  LET c == <<Call("ResetVni", [Vni |-> vni, Type |-> vniType])>>
      res == r.res
      retVni == Obj(Kinds.VniKind, [VNI |-> vni, VniType |-> vniType], [InUse |-> FALSE],
                    ProtoStatusToStatus(res))
  IN IF r.terr # NoErr THEN Out(c, ZeroVni, r.terr)
     ELSE IF res.Error # 0 THEN Out(c, retVni, ErrServerError)
     ELSE Out(c, retVni, NoErr)

\* ----------------------------------------------------------- specification
Idle == op = "idle"

\* One invocation: the operation name, its arguments, the answers the
\* backend has ready and the handler's result for them.  Only the answers
\* of the calls the handler issued are consumed.
Invoke(name, a, rs, out) ==
  LET o == out
  IN /\ op' = name
     /\ args' = a
     /\ after' = IF "after" \in DOMAIN o THEN o.after ELSE a
     /\ calls' = o.calls
     /\ resps' = SubSeq(rs, 1, Len(o.calls))
     /\ ret' = o.ret
     /\ err' = o.err
     /\ panicked' = o.panicked
     /\ round' = round + 1

Init ==
  /\ op = "idle"
  /\ args = <<>>
  /\ after = <<>>
  /\ calls = <<>>
  /\ resps = <<>>
  /\ ret = NoReturn
  /\ err = NoReturn
  /\ panicked = FALSE
  /\ round = 0

DoGetLoadBalancer ==
  /\ Idle
  /\ \E id \in IDs, r \in Answers([Status : WireStatuses, Vni : {100}, UnderlayRoute : WireV6,
                                   LbVipIP : [Address : WireV4], Lbports : LBPortSeqs]) :
      Invoke("GetLoadBalancer", [id |-> id], <<r>>, GetLoadBalancer(id, r))

DoCreateLoadBalancer ==
  /\ Idle
  /\ \E lb \in { Obj("", [ID |-> id],
                     [VNI |-> vni, LbVipIP |-> ip, Lbports |-> ports, UnderlayRoute |-> NilPtr],
                     ZeroStatus) :
                   id \in IDs, vni \in VNIs,
                   ip \in {NilPtr, Ref(Addr4("10.20.30.40"))}, ports \in LBPortSeqs },
        r \in Answers(CreateResponses) :
      Invoke("CreateLoadBalancer", [lb |-> lb], <<r>>, CreateLoadBalancer(lb, r))

DoDeleteLoadBalancer ==
  /\ Idle
  /\ \E id \in IDs, r \in Answers(WireStatuses) :
      Invoke("DeleteLoadBalancer", [id |-> id], <<r>>, DeleteLoadBalancer(id, r))

DoListLoadBalancerPrefixes ==
  /\ Idle
  /\ \E id \in IDs, r \in Answers(PrefixListResponses) :
      Invoke("ListLoadBalancerPrefixes", [interfaceID |-> id], <<r>>,
           ListLoadBalancerPrefixes(id, r))

DoCreateLoadBalancerPrefix ==
  /\ Idle
  /\ \E p \in { Obj("", [InterfaceID |-> id], [Prefix |-> pfx, UnderlayRoute |-> NilPtr],
                    ZeroStatus) :
                  id \in IDs, pfx \in Prefixes },
        r \in Answers(CreateResponses) :
      Invoke("CreateLoadBalancerPrefix", [lbprefix |-> p], <<r>>,
           CreateLoadBalancerPrefix(p, r))

DoDeleteLoadBalancerPrefix ==
  /\ Idle
  /\ \E id \in IDs, p \in Prefixes, r \in Answers(WireStatuses) :
      Invoke("DeleteLoadBalancerPrefix", [interfaceID |-> id, prefix |-> p], <<r>>,
           DeleteLoadBalancerPrefix(id, p, r))

DoGetLoadBalancerTargets ==
  /\ Idle
  /\ \E id \in IDs,
        r \in Answers([Status : WireStatuses,
                       TargetIPs : SeqsUpTo([IpVersion : {1},
                                             Address : {"", "ff80::1", "ff80::2", "bad"}],
                                            MaxEntries)]) :
      Invoke("GetLoadBalancerTargets", [loadBalancerID |-> id], <<r>>,
           GetLoadBalancerTargets(id, r))

DoAddLoadBalancerTarget ==
  /\ Idle
  /\ \E t \in { Obj("", [LoadbalancerID |-> id], [TargetIP |-> ip], ZeroStatus) :
                  id \in IDs, ip \in {NilPtr, Ref(Addr6("ff80::1")), Ref(Addr6("ff80::2"))} },
        r \in Answers(WireStatuses) :
      Invoke("AddLoadBalancerTarget", [lbtarget |-> t], <<r>>,
           AddLoadBalancerTarget(t, r))

DoDeleteLoadBalancerTarget ==
  /\ Idle
  /\ \E id \in IDs, ip \in {Addr6("ff80::1"), ZeroAddr}, r \in Answers(WireStatuses) :
      Invoke("DeleteLoadBalancerTarget", [lbid |-> id, targetIP |-> ip], <<r>>,
           DeleteLoadBalancerTarget(id, ip, r))

DoGetInterface ==
  /\ Idle
  /\ \E id \in IDs,
        r \in Answers([Status : WireStatuses,
                       Interface : [InterfaceID : {"vm4"}, Vni : {100},
                                    PciDpName : {"net_tap5"},
                                    PrimaryIPv4Address : WireV4,
                                    PrimaryIPv6Address : WireV6,
                                    UnderlayRoute : WireV6]]) :
      Invoke("GetInterface", [id |-> id], <<r>>, GetInterface(id, r))

DoListInterfaces ==
  /\ Idle
  /\ \E r \in Answers([Status : ListStatuses,
                       Interfaces : SeqsUpTo(ListedInterfaces, MaxEntries)]) :
      Invoke("ListInterfaces", [none |-> TRUE], <<r>>, ListInterfaces(r))

DoCreateInterface ==
  /\ Idle
  /\ \E iface \in Interfaces,
        r \in Answers([Response : [Status : WireStatuses, UnderlayRoute : WireV6],
                       Vf : { [Name |-> "vf0", Domain |-> 0, Bus |-> 3, Slot |-> 1,
                               Function |-> 2] }]) :
      Invoke("CreateInterface", [iface |-> iface], <<r>>, CreateInterface(iface, r))

DoDeleteInterface ==
  /\ Idle
  /\ \E id \in IDs, r \in Answers(WireStatuses) :
      Invoke("DeleteInterface", [id |-> id], <<r>>, DeleteInterface(id, r))

DoGetVirtualIP ==
  /\ Idle
  /\ \E id \in IDs,
        r \in Answers([Status : WireStatuses, Address : WireV4, UnderlayRoute : WireV6]) :
      Invoke("GetVirtualIP", [interfaceID |-> id], <<r>>, GetVirtualIP(id, r))

DoAddVirtualIP ==
  /\ Idle
  /\ \E v \in { Obj("", [InterfaceID |-> id], [IP |-> ip, UnderlayRoute |-> NilPtr], ZeroStatus) :
                  id \in IDs, ip \in {Addr4("10.20.30.40"), Addr4("10.20.30.41")} },
        r \in Answers(CreateResponses) :
      Invoke("AddVirtualIP", [virtualIP |-> v], <<r>>, AddVirtualIP(v, r))

DoDeleteVirtualIP ==
  /\ Idle
  /\ \E id \in IDs, r \in Answers(WireStatuses) :
      Invoke("DeleteVirtualIP", [interfaceID |-> id], <<r>>, DeleteVirtualIP(id, r))

DoListPrefixes ==
  /\ Idle
  /\ \E id \in IDs, r \in Answers(PrefixListResponses) :
      Invoke("ListPrefixes", [interfaceID |-> id], <<r>>, ListPrefixes(id, r))

DoAddPrefix ==
  /\ Idle
  /\ \E p \in { Obj("", [InterfaceID |-> id], [Prefix |-> pfx, UnderlayRoute |-> NilPtr],
                    ZeroStatus) :
                  id \in IDs, pfx \in Prefixes },
        r \in Answers(CreateResponses) :
      Invoke("AddPrefix", [prefix |-> p], <<r>>, AddPrefix(p, r))

DoDeletePrefix ==
  /\ Idle
  /\ \E id \in IDs, p \in Prefixes, r \in Answers(WireStatuses) :
      Invoke("DeletePrefix", [interfaceID |-> id, prefix |-> p], <<r>>,
           DeletePrefix(id, p, r))

DoAddRoute ==
  /\ Idle
  /\ \E route \in Routes, r \in Answers(WireStatuses) :
      Invoke("AddRoute", [route |-> route], <<r>>, AddRoute(route, r))

DoDeleteRoute ==
  /\ Idle
  /\ \E vni \in VNIs, p \in Prefixes, r \in Answers(WireStatuses) :
      Invoke("DeleteRoute", [vni |-> vni, prefix |-> p], <<r>>, DeleteRoute(vni, p, r))

DoListRoutes ==
  /\ Idle
  /\ \E vni \in VNIs,
        r \in Answers(
          [Status : ListStatuses,
           Routes : SeqsUpTo(
             [Prefix : [IpVersion : {0}, Address : WireV4, PrefixLength : {24}],
              NexthopVNI : {0}, NexthopAddress : WireV6]
               \cup { [Prefix |-> [IpVersion |-> 0, Address |-> "10.20.30.41",
                                   PrefixLength |-> 33],
                       NexthopVNI |-> 100, NexthopAddress |-> "ff80::2"] },
             MaxEntries)]) :
      Invoke("ListRoutes", [vni |-> vni], <<r>>, ListRoutes(vni, r))

DoGetNat ==
  /\ Idle
  /\ \E id \in IDs,
        r \in Answers([Status : WireStatuses, UnderlayRoute : WireV6,
                       NatVIPIP : [Address : WireV4],
                       MinPort : {30000}, MaxPort : {30100}]) :
      Invoke("GetNat", [interfaceID |-> id], <<r>>, GetNat(id, r))

DoAddNat ==
  /\ Idle
  /\ \E nat \in Nats, r \in Answers(CreateResponses) :
      Invoke("AddNat", [nat |-> nat], <<r>>, AddNat(nat, r))

DoDeleteNat ==
  /\ Idle
  /\ \E id \in IDs, r \in Answers(WireStatuses) :
      Invoke("DeleteNat", [interfaceID |-> id], <<r>>, DeleteNat(id, r))

DoAddNeighborNat ==
  /\ Idle
  /\ \E n \in NeighborNats, r \in Answers(WireStatuses) :
      Invoke("AddNeighborNat", [nNat |-> n], <<r>>, AddNeighborNat(n, r))

DoDeleteNeighborNat ==
  /\ Idle
  /\ \E n \in NeighborNats, r \in Answers(WireStatuses) :
      Invoke("DeleteNeighborNat", [neigbhorNat |-> n], <<r>>, DeleteNeighborNat(n, r))

DoGetNATInfo ==
  /\ Idle
  /\ \E ip \in {Addr4("10.20.30.40"), Addr4("10.20.30.41")},
        natType \in { "any", "ANY", "Any", "0", "", "local", "LOCAL", "1",
                      "neigh", "Neigh", "neighbor", "NEIGHBOR", "2", "bogus", "3" },
        r1 \in Answers(GetNATInfoResponses), r2 \in Answers(GetNATInfoResponses) :
      Invoke("GetNATInfo", [natVIPIP |-> ip, natType |-> natType], <<r1, r2>>,
           GetNATInfo(ip, natType, r1, r2))

DoListFirewallRules ==
  /\ Idle
  /\ \E id \in IDs,
        r \in Answers([Status : ListStatuses, Rules : SeqsUpTo(WireFwRules, MaxEntries)]) :
      Invoke("ListFirewallRules", [interfaceID |-> id], <<r>>,
             ListFirewallRules(id, r))

DoAddFirewallRule ==
  /\ Idle
  /\ \E fwRule \in { Obj("", [InterfaceID |-> id],
                         [ZeroFirewallRuleSpec EXCEPT
                            !.RuleID = "fr-1", !.TrafficDirection = d, !.FirewallAction = a,
                            !.Priority = 1000, !.IpVersion = v,
                            !.SourcePrefix = src,
                            !.DestinationPrefix = Ref(PrefixFrom(Addr4("10.20.30.41"), 24))],
                         ZeroStatus) :
                       id \in IDs,
                       a \in {"accept", "ACCEPT", "allow", "1", "drop", "Deny", "0", "bogus"},
                       d \in {"ingress", "INGRESS", "0", "egress", "Egress", "1", "bogus"},
                       v \in {"ipv4", "IPv4", "0", "ipv6", "IPV6", "1", "bogus"},
                       src \in {NilPtr, Ref(PrefixFrom(Addr4("10.20.30.40"), 32)),
                               Ref(PrefixFrom(Addr6("ff80::1"), 64))} },
        r \in Answers([Status : WireStatuses]) :
      Invoke("AddFirewallRule", [fwRule |-> fwRule], <<r>>,
             AddFirewallRule(fwRule, r))

\* Callers reach the method through the Client interface, which declares
\* the parameters as (interfaceID, ruleID).
DoGetFirewallRule ==
  /\ Idle
  /\ \E id \in IDs, ruleID \in RuleIDs,
        r \in Answers([Status : WireStatuses, Rule : WireFwRules]) :
      Invoke("GetFirewallRule", [interfaceID |-> id, ruleID |-> ruleID], <<r>>,
             GetFirewallRule(id, ruleID, r))

DoDeleteFirewallRule ==
  /\ Idle
  /\ \E id \in IDs, ruleID \in RuleIDs, r \in Answers(WireStatuses) :
      Invoke("DeleteFirewallRule", [interfaceID |-> id, ruleID |-> ruleID], <<r>>,
             DeleteFirewallRule(id, ruleID, r))

DoInitialized ==
  /\ Idle
  /\ \E r \in Answers([Uuid : {"", "uuid-1"}]) :
      Invoke("Initialized", [none |-> TRUE], <<r>>, Initialized(r))

DoInit ==
  /\ Idle
  /\ \E cfg \in {[empty |-> TRUE]}, r \in Answers(WireStatuses) :
      Invoke("Init", [initConfig |-> cfg], <<r>>, InitOp(cfg, r))

DoGetVni ==
  /\ Idle
  /\ \E vni \in VNIs, t \in VniTypes,
        r \in Answers([Status : WireStatuses, InUse : BOOLEAN]) :
      Invoke("GetVni", [vni |-> vni, vniType |-> t], <<r>>, GetVni(vni, t, r))

DoResetVni ==
  /\ Idle
  /\ \E vni \in VNIs, t \in VniTypes, r \in Answers(WireStatuses) :
      Invoke("ResetVni", [vni |-> vni, vniType |-> t], <<r>>, ResetVni(vni, t, r))

\* The caller takes the result; the client is ready for the next call.
Done ==
  /\ ~Idle
  /\ op' = "idle"
  /\ args' = <<>>
  /\ after' = <<>>
  /\ calls' = <<>>
  /\ resps' = <<>>
  /\ ret' = NoReturn
  /\ err' = NoReturn
  /\ panicked' = FALSE
  /\ round' = 0

Next ==
  \/ DoGetLoadBalancer
  \/ DoCreateLoadBalancer
  \/ DoDeleteLoadBalancer
  \/ DoListLoadBalancerPrefixes
  \/ DoCreateLoadBalancerPrefix
  \/ DoDeleteLoadBalancerPrefix
  \/ DoGetLoadBalancerTargets
  \/ DoAddLoadBalancerTarget
  \/ DoDeleteLoadBalancerTarget
  \/ DoGetInterface
  \/ DoListInterfaces
  \/ DoCreateInterface
  \/ DoDeleteInterface
  \/ DoGetVirtualIP
  \/ DoAddVirtualIP
  \/ DoDeleteVirtualIP
  \/ DoListPrefixes
  \/ DoAddPrefix
  \/ DoDeletePrefix
  \/ DoAddRoute
  \/ DoDeleteRoute
  \/ DoListRoutes
  \/ DoGetNat
  \/ DoAddNat
  \/ DoDeleteNat
  \/ DoAddNeighborNat
  \/ DoDeleteNeighborNat
  \/ DoGetNATInfo
  \/ DoListFirewallRules
  \/ DoAddFirewallRule
  \/ DoGetFirewallRule
  \/ DoDeleteFirewallRule
  \/ DoInitialized
  \/ DoInit
  \/ DoGetVni
  \/ DoResetVni
  \/ Done

Spec == Init /\ [][Next]_vars

\* The answer the backend gave to the i-th call of the invocation in
\* progress; a call that was not issued has no answer to read.
AnswerAt(i) ==
  IF i <= Len(resps) THEN resps[i] ELSE Failed(TransportErr("unavailable"))

\* The operation in progress invoked once more with the arguments of the
\* first invocation, the backend answering its calls as before.
RepeatOutcome ==
  CASE op = "GetLoadBalancer" -> GetLoadBalancer(args.id, AnswerAt(1))
    [] op = "CreateLoadBalancer" -> CreateLoadBalancer(args.lb, AnswerAt(1))
    [] op = "DeleteLoadBalancer" -> DeleteLoadBalancer(args.id, AnswerAt(1))
    [] op = "ListLoadBalancerPrefixes" -> ListLoadBalancerPrefixes(args.interfaceID, AnswerAt(1))
    [] op = "CreateLoadBalancerPrefix" -> CreateLoadBalancerPrefix(args.lbprefix, AnswerAt(1))
    [] op = "DeleteLoadBalancerPrefix" -> DeleteLoadBalancerPrefix(args.interfaceID, args.prefix, AnswerAt(1))
    [] op = "GetLoadBalancerTargets" -> GetLoadBalancerTargets(args.loadBalancerID, AnswerAt(1))
    [] op = "AddLoadBalancerTarget" -> AddLoadBalancerTarget(args.lbtarget, AnswerAt(1))
    [] op = "DeleteLoadBalancerTarget" -> DeleteLoadBalancerTarget(args.lbid, args.targetIP, AnswerAt(1))
    [] op = "GetInterface" -> GetInterface(args.id, AnswerAt(1))
    [] op = "ListInterfaces" -> ListInterfaces(AnswerAt(1))
    [] op = "CreateInterface" -> CreateInterface(args.iface, AnswerAt(1))
    [] op = "DeleteInterface" -> DeleteInterface(args.id, AnswerAt(1))
    [] op = "GetVirtualIP" -> GetVirtualIP(args.interfaceID, AnswerAt(1))
    [] op = "AddVirtualIP" -> AddVirtualIP(args.virtualIP, AnswerAt(1))
    [] op = "DeleteVirtualIP" -> DeleteVirtualIP(args.interfaceID, AnswerAt(1))
    [] op = "ListPrefixes" -> ListPrefixes(args.interfaceID, AnswerAt(1))
    [] op = "AddPrefix" -> AddPrefix(args.prefix, AnswerAt(1))
    [] op = "DeletePrefix" -> DeletePrefix(args.interfaceID, args.prefix, AnswerAt(1))
    [] op = "AddRoute" -> AddRoute(args.route, AnswerAt(1))
    [] op = "DeleteRoute" -> DeleteRoute(args.vni, args.prefix, AnswerAt(1))
    [] op = "ListRoutes" -> ListRoutes(args.vni, AnswerAt(1))
    [] op = "GetNat" -> GetNat(args.interfaceID, AnswerAt(1))
    [] op = "AddNat" -> AddNat(args.nat, AnswerAt(1))
    [] op = "DeleteNat" -> DeleteNat(args.interfaceID, AnswerAt(1))
    [] op = "AddNeighborNat" -> AddNeighborNat(args.nNat, AnswerAt(1))
    [] op = "DeleteNeighborNat" -> DeleteNeighborNat(args.neigbhorNat, AnswerAt(1))
    [] op = "GetNATInfo" -> GetNATInfo(args.natVIPIP, args.natType, AnswerAt(1), AnswerAt(2))
    [] op = "ListFirewallRules" -> ListFirewallRules(args.interfaceID, AnswerAt(1))
    [] op = "AddFirewallRule" -> AddFirewallRule(args.fwRule, AnswerAt(1))
    [] op = "GetFirewallRule" -> GetFirewallRule(args.interfaceID, args.ruleID, AnswerAt(1))
    [] op = "DeleteFirewallRule" -> DeleteFirewallRule(args.interfaceID, args.ruleID, AnswerAt(1))
    [] op = "Initialized" -> Initialized(AnswerAt(1))
    [] op = "Init" -> InitOp(args.initConfig, AnswerAt(1))
    [] op = "GetVni" -> GetVni(args.vni, args.vniType, AnswerAt(1))
    [] op = "ResetVni" -> ResetVni(args.vni, args.vniType, AnswerAt(1))

\* The caller repeats the invocation it has just made, without anything in
\* between: same operation, equal arguments, equal answers.
Repeat ==
  /\ ~Idle
  /\ round = 1
  /\ Invoke(op, args, <<AnswerAt(1), AnswerAt(2)>>, RepeatOutcome)

NextRepeat == Next \/ Repeat

SpecRepeat == Init /\ [][NextRepeat]_vars

\* ------------------------------------------------ errors package helpers
\* The longest wrapping chain and the longest code list that are drawn.
MaxWrap == 2
MaxCodes == 2

\* NewStatusError(errorCode, message).
NewStatusError(errorCode, message) ==
  [t |-> "StatusError", errorCode |-> errorCode, message |-> message]

\* fmt.Errorf("<msg>: %w", inner): an error whose Unwrap returns inner.
WrapErr(msg, inner) == [t |-> "wrapped", msg |-> msg, inner |-> inner]

\* errors.As(err, &statusError): walks the Unwrap chain from err and stops at
\* the first *StatusError; NilPtr when the chain ends without one. StatusError
\* has no Unwrap method, so the walk never goes past one.
RECURSIVE ErrorsAs(_)
ErrorsAs(e) ==
  IF e = NoErr THEN NilPtr
  ELSE IF e.t = "StatusError" THEN Ref(e)
  ELSE IF e.t = "wrapped" THEN ErrorsAs(e.inner)
  ELSE NilPtr

\* Checks only the first of the given codes.
IsStatusErrorCode_FirstCodeOnly(e, errorCodes) ==
  LET statusError == ErrorsAs(e)
  IN IF statusError = NilPtr THEN FALSE
     ELSE Len(errorCodes) >= 1 /\ statusError.v.errorCode = errorCodes[1]

IsStatusErrorCode(e, errorCodes) ==
  LET statusError == ErrorsAs(e)
  IN IF statusError = NilPtr THEN FALSE
     ELSE \E i \in 1..Len(errorCodes) : statusError.v.errorCode = errorCodes[i]

IgnoreStatusErrorCode(e, errorCode) ==
  IF IsStatusErrorCode(e, <<errorCode>>) THEN NoErr ELSE e

\* Status codes a caller tests for.
StatusCodes == {ALREADY_ALLOCATED, GET_VM_NOT_FND, LIST}

\* Errors nothing is wrapped in: the errors client operations return and
\* status errors built by NewStatusError.
ErrorLeaves ==
  {ErrServerError, TransportErr("unavailable"), ConversionErr("error parsing underlay ip")}
    \cup {NewStatusError(c, m) : c \in StatusCodes, m \in {"", "not found"}}

RECURSIVE ErrorChains(_)
ErrorChains(n) ==
  IF n = 0 THEN ErrorLeaves
  ELSE LET inner == ErrorChains(n - 1)
       IN inner \cup {WrapErr("context", e) : e \in inner}

ErrorInputs == {NoErr} \cup ErrorChains(MaxWrap)

CodeLists ==
  UNION {[1..n -> StatusCodes] : n \in 0..MaxCodes}

\* A caller tests an error against a list of codes.
DoIsStatusErrorCode ==
  \E e \in ErrorInputs, errorCodes \in CodeLists :
    /\ Idle
    /\ Invoke("IsStatusErrorCode", [err |-> e, errorCodes |-> errorCodes], <<>>,
              [calls |-> <<>>, ret |-> [value |-> IsStatusErrorCode(e, errorCodes)],
               err |-> NoReturn, panicked |-> FALSE])

\* A caller filters an error by one code.
DoIgnoreStatusErrorCode ==
  \E e \in ErrorInputs, errorCode \in StatusCodes :
    /\ Idle
    /\ Invoke("IgnoreStatusErrorCode", [err |-> e, errorCode |-> errorCode], <<>>,
              [calls |-> <<>>, ret |-> NoReturn,
               err |-> IgnoreStatusErrorCode(e, errorCode), panicked |-> FALSE])

NextErrors == Next \/ DoIsStatusErrorCode \/ DoIgnoreStatusErrorCode

SpecErrors == Init /\ [][NextErrors]_vars

\* ============================================================== properties
\* The answers of the invocation in progress that were transport failures.
FailedAnswers == {i \in 1..Len(resps) : resps[i].terr # NoErr}
\* The invocation issued one call and the backend answered it.
AnsweredOnce == Len(resps) = 1 /\ resps[1].terr = NoErr
\* The embedded status of a response, wherever the message keeps it.
StatusIn(res) ==
  IF "Response" \in DOMAIN res THEN res.Response.Status
  ELSE IF "Status" \in DOMAIN res THEN res.Status
  ELSE res

\* C1: when an underlying call fails at the transport layer the operation
\* returns exactly that error value, not ErrServerError, a conversion error
\* or a wrapped error, and does not panic.
C1_TransportErrorUnmodified ==
  \A i \in FailedAnswers : ~panicked /\ err = resps[i].terr

C1_Witness ==
  /\ op = "CreateLoadBalancer"
  /\ resps = <<Failed(TransportErr("deadline"))>>
  /\ err = TransportErr("deadline")

\* Operations that look at the embedded status of their one response.
StatusCheckedOps ==
  { "GetLoadBalancer", "CreateLoadBalancer", "DeleteLoadBalancer",
    "CreateLoadBalancerPrefix", "DeleteLoadBalancerPrefix",
    "GetLoadBalancerTargets", "AddLoadBalancerTarget", "DeleteLoadBalancerTarget",
    "GetInterface", "CreateInterface", "DeleteInterface",
    "GetVirtualIP", "AddVirtualIP", "DeleteVirtualIP",
    "AddPrefix", "DeletePrefix", "AddRoute", "DeleteRoute",
    "GetNat", "AddNat", "DeleteNat", "AddNeighborNat", "DeleteNeighborNat",
    "AddFirewallRule", "GetFirewallRule", "DeleteFirewallRule",
    "Init", "GetVni", "ResetVni" }
CreateClassOps ==
  { "CreateLoadBalancer", "CreateLoadBalancerPrefix", "AddLoadBalancerTarget",
    "CreateInterface", "AddVirtualIP", "AddPrefix", "AddRoute", "AddNat",
    "AddNeighborNat", "AddFirewallRule" }

\* C2: a single-resource operation, Init, GetVni, ResetVni or
\* GetLoadBalancerTargets whose call completes with an embedded status code
\* other than 0 returns the ErrServerError sentinel, whatever the code; a
\* create-class operation then has the server's code in the returned Status.
C2_NonzeroStatusIsServerError ==
  (op \in StatusCheckedOps /\ AnsweredOnce /\ StatusIn(resps[1].res).Error # 0)
    => /\ ~panicked
       /\ err = ErrServerError
       /\ op \in CreateClassOps => ret.Status.Error = StatusIn(resps[1].res).Error

C2_Witness ==
  /\ op = "CreateInterface"
  /\ AnsweredOnce
  /\ StatusIn(resps[1].res).Error = ALREADY_ALLOCATED
  /\ err = ErrServerError
  /\ ret.Status.Error = ALREADY_ALLOCATED

\* The Kind constant of the resource an operation returns.
KindOfOp ==
  [o \in StatusCheckedOps |->
     CASE o \in {"GetLoadBalancer", "CreateLoadBalancer", "DeleteLoadBalancer"}
            -> Kinds.LoadBalancerKind
       [] o \in {"CreateLoadBalancerPrefix", "DeleteLoadBalancerPrefix"}
            -> Kinds.LoadBalancerPrefixKind
       [] o = "GetLoadBalancerTargets" -> Kinds.LoadBalancerTargetListKind
       [] o \in {"AddLoadBalancerTarget", "DeleteLoadBalancerTarget"}
            -> Kinds.LoadBalancerTargetKind
       [] o \in {"GetInterface", "CreateInterface", "DeleteInterface"}
            -> Kinds.InterfaceKind
       [] o \in {"GetVirtualIP", "AddVirtualIP", "DeleteVirtualIP"}
            -> Kinds.VirtualIPKind
       [] o \in {"AddPrefix", "DeletePrefix"} -> Kinds.PrefixKind
       [] o \in {"AddRoute", "DeleteRoute"} -> Kinds.RouteKind
       [] o \in {"GetNat", "AddNat", "DeleteNat"} -> Kinds.NatKind
       [] o \in {"AddNeighborNat", "DeleteNeighborNat"} -> Kinds.NeighborNatKind
       [] o \in {"AddFirewallRule", "GetFirewallRule", "DeleteFirewallRule"}
            -> Kinds.FirewallRuleKind
       [] o = "Init" -> "Init"
       [] o \in {"GetVni", "ResetVni"} -> Kinds.VniKind]

\* The identity metadata the caller of the invocation in progress supplied.
CallerMeta ==
  CASE op \in {"GetLoadBalancer", "DeleteLoadBalancer", "GetInterface", "DeleteInterface"}
         -> [ID |-> args.id]
    [] op = "CreateLoadBalancer" -> args.lb.Meta
    [] op = "CreateLoadBalancerPrefix" -> args.lbprefix.Meta
    [] op = "GetLoadBalancerTargets" -> [LoadBalancerID |-> args.loadBalancerID]
    [] op = "AddLoadBalancerTarget" -> args.lbtarget.Meta
    [] op = "DeleteLoadBalancerTarget" -> [LoadbalancerID |-> args.lbid]
    [] op = "CreateInterface" -> args.iface.Meta
    [] op = "AddVirtualIP" -> args.virtualIP.Meta
    [] op = "AddPrefix" -> args.prefix.Meta
    [] op = "AddRoute" -> args.route.Meta
    [] op = "DeleteRoute" -> [VNI |-> args.vni]
    [] op = "AddNat" -> args.nat.Meta
    [] op = "AddNeighborNat" -> args.nNat.Meta
    [] op = "DeleteNeighborNat" -> args.neigbhorNat.Meta
    [] op = "AddFirewallRule" -> args.fwRule.Meta
    [] op = "Init" -> [zero |-> TRUE]
    [] op \in {"GetVni", "ResetVni"} -> [VNI |-> args.vni, VniType |-> args.vniType]
    [] OTHER -> [InterfaceID |-> args.interfaceID]

\* C3: whenever an operation returns ErrServerError, the returned object
\* carries the Kind constant of its resource, the identity metadata the
\* caller supplied, and a Status equal to the non-zero status of the
\* response.
C3_ServerErrorObjectIsComplete ==
  (op \in StatusCheckedOps /\ err = ErrServerError)
    => /\ ret.Kind = KindOfOp[op]
       /\ ret.Meta = CallerMeta
       /\ ret.Status = ProtoStatusToStatus(StatusIn(resps[1].res))
       /\ ret.Status.Error # 0

\* The list-class operations and the NAT-info query.
ListClassOps ==
  { "ListInterfaces", "ListPrefixes", "ListLoadBalancerPrefixes", "ListRoutes",
    "ListFirewallRules", "GetNATInfo" }
\* The answered calls of the invocation whose embedded status is not 0.
RefusedAnswers ==
  {i \in 1..Len(resps) : resps[i].terr = NoErr /\ StatusIn(resps[i].res).Error # 0}

\* C4: when the response of a list-class operation, or of a GetNATInfo
\* sub-call, carries an embedded status code other than 0, the operation
\* returns ErrServerError and a list object carrying that Status, not a nil
\* error with an item list.
C4_ListStatusIsServerError ==
  (op \in ListClassOps /\ FailedAnswers = {})
    => \A i \in RefusedAnswers :
         /\ ~panicked
         /\ err = ErrServerError
         /\ ret # NilObj
         /\ ret.Status = ProtoStatusToStatus(StatusIn(resps[i].res))

\* Query-type tokens of GetNATInfo by meaning, in several letter cases.
AnyTokens == {"any", "ANY", "Any", "0", ""}
LocalTokens == {"local", "LOCAL", "1"}
NeighborTokens == {"neigh", "Neigh", "neighbor", "NEIGHBOR", "2"}
\* The i-th call of the invocation is a GetNATInfo call of wire type t for
\* the VIP the caller asked about.
IsNATInfoCall(i, t) ==
  /\ calls[i].method = "GetNATInfo"
  /\ calls[i].req.NatInfoType = t
  /\ calls[i].req.NatVIPIP.Address = args.natVIPIP.s
\* The port ranges of wire entries and of returned items, position by
\* position.
EntryPorts(entries) ==
  [i \in 1..Len(entries) |-> <<entries[i].MinPort, entries[i].MaxPort>>]
ItemPorts(items) ==
  [i \in 1..Len(items) |-> <<items[i].Spec.MinPort, items[i].Spec.MaxPort>>]

TopLevelVIPs ==
  IF Len(resps) = 1 THEN {resps[1].res.NatVIPIP.Address}
  ELSE {args.natVIPIP.s, resps[1].res.NatVIPIP.Address, resps[2].res.NatVIPIP.Address}
\* The wire entries GetNATInfo converted, in the order it converted them.
ConvertedEntries ==
  IF Len(resps) = 1 THEN resps[1].res.NatInfoEntries
  ELSE resps[1].res.NatInfoEntries \o resps[2].res.NatInfoEntries

\* C6: in the list GetNATInfo returns, an item made from a wire entry with
\* an underlay route has UnderlayRoute set to that address and NatVIPIP set
\* to the top-level VIP; an item made from an entry without one has both
\* unset, whatever entries precede it.
C6_EnrichmentPerEntry ==
  (op = "GetNATInfo" /\ err = NoErr)
    => \A i \in 1..Len(ret.Items) :
         LET e == ConvertedEntries[i]
             item == ret.Items[i]
         IN IF e.UnderlayRoute.ptr
            THEN /\ item.Spec.UnderlayRoute.ptr
                 /\ item.Spec.UnderlayRoute.v.s = e.UnderlayRoute.v
                 /\ item.Spec.NatVIPIP.ptr
                 /\ item.Spec.NatVIPIP.v.s \in TopLevelVIPs
            ELSE /\ item.Spec.UnderlayRoute = NilPtr
                 /\ item.Spec.NatVIPIP = NilPtr

\* C7: GetNATInfo with an explicit Local or Neighbor token issues exactly
\* one call, with that type code and the requested VIP, and returns one
\* item per entry of that response, in wire order.
C7_ExplicitTypeIsOneCall ==
  (op = "GetNATInfo" /\ args.natType \in LocalTokens \cup NeighborTokens)
    => /\ ~panicked
       /\ Len(calls) = 1
       /\ IsNATInfoCall(1, IF args.natType \in LocalTokens THEN 1 ELSE 2)
       /\ err = NoErr => ItemPorts(ret.Items) = EntryPorts(resps[1].res.NatInfoEntries)

C7_Witness ==
  /\ op = "GetNATInfo" /\ args.natType = "NEIGHBOR"
  /\ Len(calls) = 1 /\ calls[1].req.NatInfoType = 2 /\ err = NoErr
  /\ EntryPorts(resps[1].res.NatInfoEntries) = << <<100, 200>>, <<300, 400>> >>
  /\ ItemPorts(ret.Items) = << <<100, 200>>, <<300, 400>> >>

\* C8: in GetNATInfo with type Any, when the Local or the Neighbor sub-call
\* fails at the transport layer the operation returns that error and a nil
\* list, never the items of the other sub-call.
C8_AnyFailureHasNoPartialResult ==
  (op = "GetNATInfo" /\ args.natType \in AnyTokens /\ FailedAnswers # {})
    => /\ ~panicked
       /\ ret = NilObj
       /\ \E i \in FailedAnswers : err = resps[i].terr

C8_Witness ==
  /\ op = "GetNATInfo" /\ args.natType = "any"
  /\ Len(resps) = 2
  /\ resps[1].terr = NoErr /\ Len(resps[1].res.NatInfoEntries) = 1
  /\ resps[2].terr = TransportErr("unavailable")
  /\ ret = NilObj /\ err = TransportErr("unavailable")

\* The elements of a sequence.
Range(seq) == {seq[i] : i \in 1..Len(seq)}
\* The address fields of one response of the operation in progress, as the
\* strings the wire carries.
AddrFieldsOf(res) ==
  CASE op = "GetLoadBalancer" -> {res.UnderlayRoute, res.LbVipIP.Address}
    [] op \in {"CreateLoadBalancer", "CreateLoadBalancerPrefix", "AddVirtualIP",
               "AddPrefix", "AddNat"} -> {res.UnderlayRoute}
    [] op = "CreateInterface" -> {res.Response.UnderlayRoute}
    [] op \in {"ListPrefixes", "ListLoadBalancerPrefixes"}
         -> UNION {{pfx.Address, pfx.UnderlayRoute} : pfx \in Range(res.Prefixes)}
    [] op = "GetLoadBalancerTargets" -> {t.Address : t \in Range(res.TargetIPs)}
    [] op = "GetInterface"
         -> {res.Interface.PrimaryIPv4Address, res.Interface.PrimaryIPv6Address,
             res.Interface.UnderlayRoute}
    [] op = "ListInterfaces"
         -> UNION {{i.PrimaryIPv4Address, i.PrimaryIPv6Address, i.UnderlayRoute} :
                     i \in Range(res.Interfaces)}
    [] op = "GetVirtualIP" -> {res.Address, res.UnderlayRoute}
    [] op = "ListRoutes"
         -> UNION {{rt.Prefix.Address, rt.NexthopAddress} : rt \in Range(res.Routes)}
    [] op = "GetNat" -> {res.UnderlayRoute, res.NatVIPIP.Address}
    [] op = "GetNATInfo"
         -> {res.NatVIPIP.Address}
              \cup {e.UnderlayRoute.v :
                      e \in {x \in Range(res.NatInfoEntries) : x.UnderlayRoute.ptr}}
    [] op = "ListFirewallRules"
         -> UNION {{fr.SourcePrefix.Address, fr.DestinationPrefix.Address} :
                     fr \in Range(res.Rules)}
    [] op = "GetFirewallRule"
         -> {res.Rule.SourcePrefix.Address, res.Rule.DestinationPrefix.Address}
    [] OTHER -> {}
\* The address fields of all responses of the invocation in progress.
WireAddrFields == UNION {AddrFieldsOf(resps[i].res) : i \in 1..Len(resps)}
\* The firewall rules among the responses of the invocation in progress.
WireRulesAnswered ==
  CASE op = "ListFirewallRules" -> Range(resps[1].res.Rules)
    [] op = "GetFirewallRule" -> {resps[1].res.Rule}
    [] OTHER -> {}
\* No prefix length of an answered firewall rule exceeds its family's width.
RuleLengthsInRange ==
  \A fr \in WireRulesAnswered :
    LET width == IF fr.IpVersion = 0 THEN 32 ELSE 128
    IN fr.SourcePrefix.PrefixLength <= width /\ fr.DestinationPrefix.PrefixLength <= width
\* Every call of the invocation was answered, with embedded status 0.
AllAnsweredOK ==
  Len(resps) >= 1 /\ FailedAnswers = {} /\ RefusedAnswers = {}
WellFormedAddrs == ValidV4 \cup ValidV6

\* C9: an empty address field of a status-0 response decodes to the absent
\* value: an operation whose responses carry only empty or valid address
\* fields returns no error.
C9_EmptyAddressIsAbsent ==
  (AllAnsweredOK /\ RuleLengthsInRange /\ WireAddrFields \subseteq WellFormedAddrs \cup {""})
    => ~panicked /\ err = NoErr

\* C10: a non-empty address field that is not a valid IP address makes the
\* operation return a conversion error; it is never turned into an absent
\* address inside a result returned with a nil error.
C10_InvalidAddressIsAnError ==
  (AllAnsweredOK /\ ~(WireAddrFields \subseteq WellFormedAddrs \cup {""}))
    => ~panicked /\ err # NoErr /\ err.t = "conversion"

\* The wire prefixes among the responses of the invocation in progress.
WirePrefixesAnswered ==
  CASE op \in {"ListPrefixes", "ListLoadBalancerPrefixes"} -> Range(resps[1].res.Prefixes)
    [] op = "ListRoutes" -> {rt.Prefix : rt \in Range(resps[1].res.Routes)}
    [] op \in {"ListFirewallRules", "GetFirewallRule"}
         -> UNION {{fr.SourcePrefix, fr.DestinationPrefix} : fr \in WireRulesAnswered}
    [] OTHER -> {}
\* Wire prefixes whose bit-length exceeds what their address family allows.
OutOfRangePrefixes ==
  {pfx \in WirePrefixesAnswered :
     pfx.PrefixLength > (IF pfx.IpVersion = 0 THEN 32 ELSE 128)}

\* C11: a wire prefix whose bit-length is outside the range of its address
\* family makes the decoding operation fail with a conversion error, for
\* prefixes, routes and firewall rules alike.
C11_OutOfRangeLengthIsAnError ==
  (AllAnsweredOK /\ OutOfRangePrefixes # {})
    => ~panicked /\ err # NoErr /\ err.t = "conversion"

\* Enum tokens of a firewall rule by meaning, in several letter cases.
AcceptTokens == {"accept", "ACCEPT", "allow", "1"}
DropTokens == {"drop", "Deny", "0"}
IngressTokens == {"ingress", "INGRESS", "0"}
EgressTokens == {"egress", "Egress", "1"}
IPv4Tokens == {"ipv4", "IPv4", "0"}
IPv6Tokens == {"ipv6", "IPV6", "1"}
\* The three enum fields of the rule passed to AddFirewallRule are
\* recognized tokens.
RuleTokensRecognized ==
  /\ args.fwRule.Spec.FirewallAction \in AcceptTokens \cup DropTokens
  /\ args.fwRule.Spec.TrafficDirection \in IngressTokens \cup EgressTokens
  /\ args.fwRule.Spec.IpVersion \in IPv4Tokens \cup IPv6Tokens
\* The canonical strings and wire codes the rule passed to AddFirewallRule
\* stands for.
CanonicalEnums ==
  [FirewallAction |->
     IF args.fwRule.Spec.FirewallAction \in AcceptTokens THEN "Accept" ELSE "Drop",
   TrafficDirection |->
     IF args.fwRule.Spec.TrafficDirection \in IngressTokens THEN "Ingress" ELSE "Egress",
   IpVersion |-> IF args.fwRule.Spec.IpVersion \in IPv4Tokens THEN "IPv4" ELSE "IPv6"]
EnumStrings(spec) ==
  [FirewallAction |-> spec.FirewallAction, TrafficDirection |-> spec.TrafficDirection,
   IpVersion |-> spec.IpVersion]

\* C12: in AddFirewallRule every recognized token of FirewallAction,
\* TrafficDirection and IpVersion, in any letter case, is sent as the wire
\* code of its meaning (Accept 1, Drop 0, Ingress 0, Egress 1, IPv4 0,
\* IPv6 1), the string field of the caller's rule is rewritten to the fixed
\* canonical form, and on a status-0 response the returned Spec carries the
\* canonical strings.
C12_EnumTokensAreCanonicalized ==
  (op = "AddFirewallRule" /\ RuleTokensRecognized)
    => /\ EnumStrings(after.fwRule.Spec) = CanonicalEnums
       /\ ~panicked =>
            /\ Len(calls) = 1
            /\ calls[1].req.Rule.Action = (IF CanonicalEnums.FirewallAction = "Accept" THEN 1 ELSE 0)
            /\ calls[1].req.Rule.Direction =
                 (IF CanonicalEnums.TrafficDirection = "Ingress" THEN 0 ELSE 1)
            /\ calls[1].req.Rule.IpVersion = (IF CanonicalEnums.IpVersion = "IPv4" THEN 0 ELSE 1)
       /\ err = NoErr => EnumStrings(ret.Spec) = CanonicalEnums

C12_Witness ==
  /\ op = "AddFirewallRule"
  /\ EnumStrings(args.fwRule.Spec) =
       [FirewallAction |-> "ACCEPT", TrafficDirection |-> "INGRESS", IpVersion |-> "IPV6"]
  /\ Len(calls) = 1 /\ calls[1].req.Rule.Action = 1 /\ calls[1].req.Rule.IpVersion = 1
  /\ err = NoErr
  /\ EnumStrings(ret.Spec) =
       [FirewallAction |-> "Accept", TrafficDirection |-> "Ingress", IpVersion |-> "IPv6"]

\* The invocation in progress was given an enum token the operation does
\* not recognize.
UnrecognizedToken ==
  \/ op = "AddFirewallRule" /\ ~RuleTokensRecognized
  \/ op = "GetNATInfo"
       /\ args.natType \notin AnyTokens \cup LocalTokens \cup NeighborTokens

\* C13: for an unrecognized enum token (firewall action, traffic direction
\* or IP version in AddFirewallRule, query type in GetNATInfo) the operation
\* returns a non-nil error and issues no call at all.
C13_UnrecognizedTokenIssuesNoCall ==
  UnrecognizedToken => ~panicked /\ err # NoErr /\ err.t = "enum" /\ calls = <<>>

C13_Witness ==
  /\ op = "AddFirewallRule"
  /\ args.fwRule.Spec.FirewallAction = "accept"
  /\ args.fwRule.Spec.TrafficDirection = "bogus"
  /\ calls = <<>> /\ err.t = "enum"

\* The capitalized forms of the meaning of a NAT query-type token.
CanonicalNatTypes(token) ==
  IF token \in AnyTokens THEN {"Any"}
  ELSE IF token \in LocalTokens THEN {"Local"}
  ELSE {"Neigh", "Neighbor"}

\* C14: on a successful GetNATInfo the query type in the metadata of the
\* returned list is the canonical capitalized form of the token's meaning,
\* the same for every synonym and letter case.
C14_NatTypeIsCanonicalized ==
  (op = "GetNATInfo" /\ err = NoErr)
    => ret.Meta.NatInfoType \in CanonicalNatTypes(args.natType)

\* C15: whenever the call of a single-resource operation, Init, GetVni,
\* ResetVni or GetLoadBalancerTargets completes at the transport level and an
\* object is returned, the Status of that object is the embedded status of the
\* response, code and message, whether the code is 0 or not.
C15_StatusCopiedVerbatim ==
  (op \in StatusCheckedOps /\ AnsweredOnce /\ ~panicked /\ ~ret.nil)
    => ret.Status = StatusIn(resps[1].res)

\* C16: on a transport-level failure the returned object is not nil, carries
\* the Kind of the operation's resource and has no Status populated.
C16_TransportFailureKeepsKind ==
  (op \in StatusCheckedOps /\ FailedAnswers # {} /\ ~panicked)
    => ~ret.nil /\ ret.Kind = KindOfOp[op] /\ ret.Status = ZeroStatus

\* C17: an object returned together with a transport error or with
\* ErrServerError never has Status code 0: code 0 and a failure of either
\* channel do not co-occur in one call.
C17_StatusZeroExcludesFailure ==
  (~Idle /\ ~panicked /\ err # NoErr /\ err.t \in {"transport", "ErrServerError"}
     /\ "Status" \in DOMAIN ret)
    => ret.Status.Error # 0

\* The list operations whose result has one item per wire entry.
ItemListOps ==
  { "ListInterfaces", "ListPrefixes", "ListLoadBalancerPrefixes", "ListRoutes",
    "ListFirewallRules", "GetLoadBalancerTargets", "GetNATInfo" }
\* The entries of the response, or of the two responses, of the list
\* operation in progress, in wire order.
WireEntries ==
  CASE op = "ListInterfaces" -> resps[1].res.Interfaces
    [] op \in {"ListPrefixes", "ListLoadBalancerPrefixes"} -> resps[1].res.Prefixes
    [] op = "ListRoutes" -> resps[1].res.Routes
    [] op = "ListFirewallRules" -> resps[1].res.Rules
    [] op = "GetLoadBalancerTargets" -> resps[1].res.TargetIPs
    [] op = "GetNATInfo" -> ConvertedEntries
\* Item is what the operation in progress makes of wire entry e taken alone.
\* Of an item of GetNATInfo this covers what comes from its own entry: the
\* kind, the port range and the underlay route the entry carries.
IsConversionOf(item, e) ==
  CASE op = "ListInterfaces" -> item = ProtoInterfaceToInterface(e).obj
    [] op = "ListPrefixes" -> item = ProtoPrefixToPrefix(args.interfaceID, e).obj
    [] op = "ListLoadBalancerPrefixes"
         -> item = [ProtoPrefixToPrefix(args.interfaceID, ProtoLBPrefixToProtoPrefix(e)).obj
                      EXCEPT !.Kind = Kinds.LoadBalancerPrefixKind]
    [] op = "ListRoutes" -> item = ProtoRouteToRoute(args.vni, e).obj
    [] op = "ListFirewallRules" -> item = ProtoFwRuleToFwRule(e, args.interfaceID).obj
    [] op = "GetLoadBalancerTargets"
         -> item = Obj(Kinds.LoadBalancerTargetKind,
                       [LoadbalancerID |-> args.loadBalancerID],
                       [TargetIP |-> ProtoLbipToLbip(e)], ZeroStatus)
    [] op = "GetNATInfo"
         -> /\ item.Kind = Kinds.NatKind
            /\ item.Spec.MinPort = e.MinPort /\ item.Spec.MaxPort = e.MaxPort
            /\ e.UnderlayRoute.ptr
                 => /\ item.Spec.UnderlayRoute.ptr
                    /\ item.Spec.UnderlayRoute.v.s = e.UnderlayRoute.v

PortPairs(ports) ==
  [i \in 1..Len(ports) |-> <<ports[i].Protocol, ports[i].Port>>]

\* C19: load-balancer ports keep their position in both directions: the
\* request of CreateLoadBalancer carries, port by port, the (protocol, port)
\* pairs of Spec.Lbports, and a successful GetLoadBalancer returns, port by
\* port, the pairs of the response, in equal number.
C19_LbportsKeepPosition ==
  /\ (op = "CreateLoadBalancer" /\ ~panicked)
       => /\ Len(calls) = 1
          /\ PortPairs(calls[1].req.Lbports) = PortPairs(args.lb.Spec.Lbports)
  /\ (op = "GetLoadBalancer" /\ ~panicked /\ err = NoErr)
       => PortPairs(ret.Spec.Lbports) = PortPairs(resps[1].res.Lbports)

C19_Witness ==
  /\ op = "GetLoadBalancer" /\ err = NoErr
  /\ PortPairs(resps[1].res.Lbports) = << <<17, 53>>, <<6, 80>> >>
  /\ PortPairs(ret.Spec.Lbports) = << <<17, 53>>, <<6, 80>> >>

\* The outcomes of an invocation that got as far as its call: a transport
\* error, ErrServerError, a conversion error or success.
CallOutcomes == {"nil", "transport", "ErrServerError", "conversion"}

\* C20 (as stated): every operation other than GetNATInfo issues exactly one
\* call per invocation, whatever the outcome.
C20_ExactlyOneCallAlways ==
  (~Idle /\ op # "GetNATInfo") => Len(calls) = 1

\* C20: an operation other than GetNATInfo issues at most one call, and
\* exactly one when it ends in a transport error, a domain error, a
\* conversion error or success; GetNATInfo issues at most two; a call that
\* failed at the transport layer is the last one, and no request is sent twice.
C20_CallsPerInvocation ==
  ~Idle =>
    /\ op # "GetNATInfo" => Len(calls) <= 1
    /\ (op # "GetNATInfo" /\ ~panicked /\ err.t \in CallOutcomes) => Len(calls) = 1
    /\ op = "GetNATInfo" => Len(calls) <= 2
    /\ \A i \in FailedAnswers : Len(calls) = i
    /\ \A i, j \in 1..Len(calls) : i # j => calls[i] # calls[j]

C20_Witness ==
  /\ op = "GetNATInfo" /\ args.natType = "any"
  /\ Len(calls) = 1 /\ resps[1].terr = TransportErr("deadline")
  /\ err = TransportErr("deadline")

\* The create-class operations whose response carries an underlay route.
UnderlayCreateOps ==
  { "CreateInterface", "CreateLoadBalancer", "CreateLoadBalancerPrefix",
    "AddVirtualIP", "AddPrefix", "AddNat" }
\* The object the caller passed to the create-class operation in progress.
CreateInput ==
  CASE op = "CreateInterface" -> args.iface
    [] op = "CreateLoadBalancer" -> args.lb
    [] op = "CreateLoadBalancerPrefix" -> args.lbprefix
    [] op = "AddVirtualIP" -> args.virtualIP
    [] op = "AddPrefix" -> args.prefix
    [] op = "AddNat" -> args.nat
\* The Spec fields the server fills in.
ServerSpecFields == {"UnderlayRoute", "VirtualFunction"}

ConvertingListOps ==
  { "ListInterfaces", "ListPrefixes", "ListLoadBalancerPrefixes", "ListRoutes",
    "ListFirewallRules" }
\* The error of converting wire entry e in the list operation in progress.
EntryConversionErr(e) ==
  CASE op = "ListInterfaces" -> ProtoInterfaceToInterface(e).err
    [] op = "ListPrefixes" -> ProtoPrefixToPrefix(args.interfaceID, e).err
    [] op = "ListLoadBalancerPrefixes"
         -> ProtoPrefixToPrefix(args.interfaceID, ProtoLBPrefixToProtoPrefix(e)).err
    [] op = "ListRoutes" -> ProtoRouteToRoute(args.vni, e).err
    [] op = "ListFirewallRules" -> ProtoFwRuleToFwRule(e, args.interfaceID).err
\* The positions of the wire entries whose conversion fails.
FailingEntries ==
  {i \in 1..Len(WireEntries) : EntryConversionErr(WireEntries[i]) # NoErr}

\* C22: when the conversion of a wire entry of a list operation fails, at
\* whatever position, the operation returns a conversion error and no item
\* list; ListLoadBalancerPrefixes does so as the other list operations do.
C22_ConversionErrorIsSurfaced ==
  (op \in ConvertingListOps /\ AnsweredOnce /\ FailingEntries # {})
    => /\ ~panicked
       /\ err \in {EntryConversionErr(WireEntries[i]) : i \in FailingEntries}
       /\ ret.nil \/ ret.Items = <<>>

\* What ProtoFwRuleToFwRule makes of the rule in the request AddFirewallRule
\* sent.
SentRuleReadBack ==
  ProtoFwRuleToFwRule(calls[1].req.Rule, calls[1].req.InterfaceID)

\* C23: the rule AddFirewallRule sends, decoded with ProtoFwRuleToFwRule,
\* has the canonical action, direction and IP-version strings AddFirewallRule
\* wrote back into the caller's rule, and the source and destination prefixes
\* of the caller's rule.
C23_FwRuleEnumRoundTrip ==
  (op = "AddFirewallRule" /\ Len(calls) = 1)
    => /\ SentRuleReadBack.err = NoErr
       /\ EnumStrings(SentRuleReadBack.obj.Spec) = EnumStrings(after.fwRule.Spec)
       /\ SentRuleReadBack.obj.Spec.SourcePrefix = args.fwRule.Spec.SourcePrefix
       /\ SentRuleReadBack.obj.Spec.DestinationPrefix = args.fwRule.Spec.DestinationPrefix

C23_Witness ==
  /\ op = "AddFirewallRule" /\ Len(calls) = 1
  /\ args.fwRule.Spec.TrafficDirection = "ingress"
  /\ args.fwRule.Spec.FirewallAction = "allow"
  /\ calls[1].req.Rule.Direction = 0 /\ calls[1].req.Rule.Action = 1
  /\ after.fwRule.Spec.TrafficDirection = "Ingress"
  /\ SentRuleReadBack.obj.Spec.TrafficDirection = "Ingress"
  /\ SentRuleReadBack.obj.Spec.FirewallAction = "Accept"
  /\ SentRuleReadBack.obj.Spec.SourcePrefix = Ref(PrefixFrom(Addr4("10.20.30.40"), 32))

EnumsKeptOrCanonical(before, now) ==
  /\ now.FirewallAction \in {before.FirewallAction, ActionOf(before.FirewallAction).canon}
  /\ now.TrafficDirection
       \in {before.TrafficDirection, DirectionOf(before.TrafficDirection).canon}
  /\ now.IpVersion \in {before.IpVersion, IpVersionOf(before.IpVersion).canon}

\* C25: when an operation has returned or panicked, the object the caller
\* passed in is field for field what it was before the call; only
\* AddFirewallRule may have rewritten the three enum strings of the rule to
\* their canonical form.
C25_CallerObjectUnchanged ==
  ~Idle =>
    IF op = "AddFirewallRule"
    THEN /\ after.fwRule =
              [args.fwRule EXCEPT
                 !.Spec.FirewallAction = after.fwRule.Spec.FirewallAction,
                 !.Spec.TrafficDirection = after.fwRule.Spec.TrafficDirection,
                 !.Spec.IpVersion = after.fwRule.Spec.IpVersion]
         /\ EnumsKeptOrCanonical(args.fwRule.Spec, after.fwRule.Spec)
    ELSE after = args

C25_Witness ==
  /\ op = "CreateLoadBalancer" /\ err = NoErr
  /\ args.lb.Spec.UnderlayRoute = NilPtr
  /\ ret.Spec.UnderlayRoute = Ref(Addr6("ff80::1"))
  /\ after.lb.Spec.UnderlayRoute = NilPtr
  /\ after = args

\* The VIP strings written into the items of the returned list that have one.
ItemVIPs ==
  {ret.Items[i].Spec.NatVIPIP.v.s :
     i \in {j \in 1..Len(ret.Items) : ret.Items[j].Spec.NatVIPIP.ptr}}

\* C26 (as stated): in the Any path of GetNATInfo the VIP written into the
\* enriched items is the outer address of one of the two sub-call responses.
C26_AnyVIPIsReported ==
  (op = "GetNATInfo" /\ args.natType \in AnyTokens /\ err = NoErr)
    => ItemVIPs \subseteq
         {resps[1].res.NatVIPIP.Address, resps[2].res.NatVIPIP.Address}

\* C26: in the Any path of GetNATInfo the VIP written into the enriched items
\* is the requested VIP, whatever outer address the two responses carry.
C26_AnyVIPIsRequested ==
  (op = "GetNATInfo" /\ args.natType \in AnyTokens /\ err = NoErr)
    => ItemVIPs \subseteq {AddrString(args.natVIPIP)}

C26_Witness ==
  /\ op = "GetNATInfo" /\ args.natType = "0" /\ err = NoErr
  /\ args.natVIPIP = Addr4("10.20.30.41")
  /\ resps[1].res.NatVIPIP.Address = "10.20.30.40"
  /\ resps[2].res.NatVIPIP.Address = "10.20.30.40"
  /\ ItemVIPs = {"10.20.30.41"}

\* C27: in GetNATInfo with type Any the Local call comes first and the
\* Neighbor call is issued only when the Local call returned without a
\* transport error; when the Local call fails the operation returns with
\* exactly one call issued.
C27_NeighborOnlyAfterLocal ==
  (op = "GetNATInfo" /\ args.natType \in AnyTokens /\ ~panicked)
    => /\ Len(calls) >= 1 /\ calls[1].req.NatInfoType = 1
       /\ Len(calls) >= 2
            => /\ resps[1].terr = NoErr
               /\ calls[2].req.NatInfoType = 2
               /\ Len(calls) = 2
       /\ resps[1].terr # NoErr => Len(calls) = 1

C27_Witness ==
  /\ op = "GetNATInfo" /\ args.natType = "ANY"
  /\ resps = <<Failed(TransportErr("unavailable"))>>
  /\ Len(calls) = 1 /\ calls[1].req.NatInfoType = 1
  /\ err = TransportErr("unavailable")

\* Which enum tokens of the rule passed to AddFirewallRule are recognized.
ActionRecognized == args.fwRule.Spec.FirewallAction \in AcceptTokens \cup DropTokens
DirectionRecognized == args.fwRule.Spec.TrafficDirection \in IngressTokens \cup EgressTokens
IpVersionRecognized == args.fwRule.Spec.IpVersion \in IPv4Tokens \cup IPv6Tokens

\* C28: AddFirewallRule validates FirewallAction, TrafficDirection and
\* IpVersion in that order and stops at the first unrecognized token with an
\* enum error and no call: the fields before the rejected one are canonical
\* in the caller's rule, the rejected field and the ones after it are as
\* given.  When the call then fails, by transport or by status, the caller's
\* rule holds all three canonical strings.
C28_ValidationOrderAndRewrite ==
  op = "AddFirewallRule" =>
    LET given == args.fwRule.Spec
        now == after.fwRule.Spec
        rejected == ~panicked /\ err # NoErr /\ err.t = "enum" /\ calls = <<>>
    IN /\ ~ActionRecognized
            => /\ rejected
               /\ EnumStrings(now) = EnumStrings(given)
       /\ (ActionRecognized /\ ~DirectionRecognized)
            => /\ rejected
               /\ now.FirewallAction = CanonicalEnums.FirewallAction
               /\ now.TrafficDirection = given.TrafficDirection
               /\ now.IpVersion = given.IpVersion
       /\ (ActionRecognized /\ DirectionRecognized /\ ~IpVersionRecognized)
            => /\ rejected
               /\ now.FirewallAction = CanonicalEnums.FirewallAction
               /\ now.TrafficDirection = CanonicalEnums.TrafficDirection
               /\ now.IpVersion = given.IpVersion
       /\ (~panicked /\ err # NoErr /\ err.t \in {"transport", "ErrServerError"})
            => EnumStrings(now) = CanonicalEnums

C28_Witness ==
  /\ op = "AddFirewallRule"
  /\ EnumStrings(args.fwRule.Spec) =
       [FirewallAction |-> "Deny", TrafficDirection |-> "egress", IpVersion |-> "bogus"]
  /\ EnumStrings(after.fwRule.Spec) =
       [FirewallAction |-> "Drop", TrafficDirection |-> "Egress", IpVersion |-> "bogus"]
  /\ calls = <<>> /\ err = EnumErr("ip version can be only: IPv4 = 0/IPv6 = 1")

\* C29: CreateInterface reaches its one call and returns normally for every
\* interface, also one with a nil PXE and one with both PXE fields set and
\* an address of only one family: it does not fault before the call.
C29_CreateInterfaceReachesCall ==
  op = "CreateInterface"
    => /\ ~panicked
       /\ Len(calls) = 1

\* The errors along the Unwrap chain of e, e itself included.
RECURSIVE ErrorChainOf(_)
ErrorChainOf(e) ==
  IF e = NoErr THEN {}
  ELSE IF e.t = "wrapped" THEN {e} \cup ErrorChainOf(e.inner)
  ELSE {e}

\* e is, or wraps, a StatusError whose code is one of codes.
HoldsStatusCode(e, codes) ==
  \E x \in ErrorChainOf(e) : x.t = "StatusError" /\ x.errorCode \in codes

\* The errors the client operations of the model return.
ClientReturnsError ==
  /\ ~Idle
  /\ ~panicked
  /\ op \notin {"IsStatusErrorCode", "IgnoreStatusErrorCode"}
  /\ err # NoErr

\* C30: IsStatusErrorCode is true exactly when the error is or wraps a
\* StatusError whose code is among the given codes; IgnoreStatusErrorCode
\* returns nil exactly when the error is or wraps a StatusError with the given
\* code and the error itself otherwise; no error a client operation returns,
\* the ErrServerError sentinel included, is matched or suppressed for any code.
C30_StatusErrorCodeMatching ==
  /\ op = "IsStatusErrorCode"
       => ret.value = HoldsStatusCode(args.err, {args.errorCodes[i] : i \in 1..Len(args.errorCodes)})
  /\ op = "IgnoreStatusErrorCode"
       => err = IF HoldsStatusCode(args.err, {args.errorCode}) THEN NoErr ELSE args.err
  /\ ClientReturnsError
       => \A c \in StatusCodes :
            /\ ~IsStatusErrorCode(err, <<c>>)
            /\ ~IsStatusErrorCode(err, <<LIST, c>>)
            /\ IgnoreStatusErrorCode(err, c) = err

\* A wrapped status error is matched by the second code of the list.
C30_Witness ==
  /\ op = "IsStatusErrorCode"
  /\ args.err = WrapErr("context", NewStatusError(GET_VM_NOT_FND, "not found"))
  /\ args.errorCodes = <<ALREADY_ALLOCATED, GET_VM_NOT_FND>>
  /\ ret.value = TRUE
====
